----------------------------- MODULE MailDispatch -----------------------------
(***************************************************************************)
(* E-mail: who writes it in a request, who sends it afterwards, and the    *)
(* log of it (services/email.py, services/email_service.py).               *)
(*                                                                         *)
(* A letter with a link carries a token that the request commits.  Invites *)
(* are handed to the background tasks of the response, which run after the *)
(* commit.  All other callers pass none, and the letter is on its way as   *)
(* soon as it is written (schedule_email, "background is None").           *)
(***************************************************************************)
EXTENDS Naturals, FiniteSets

CONSTANTS
  Poster,     \* requests that may be in flight
  Addressee,  \* addresses
  MaxLetter   \* bound: letters written

ASSUME MailAssumption == MaxLetter \in Nat

VARIABLES
  known,      \* users, as committed
  tokens,     \* auth_tokens, as committed: the letters whose link works
  posting,    \* the requests in flight, with the letter they have written
  errands,    \* the letters to send, and to log
  mailbox,    \* the letters that have arrived
  mailLog,    \* email_log
  written,    \* how many letters have been written
  dropped     \* history: the letters whose errand was lost with the process

mailVars == <<known, tokens, posting, errands, mailbox, mailLog, written, dropped>>

NotPosting == [kind |-> "none"]

\* The letters that make an account with them, and those for who has one.
NewAccount == {"register", "welcome"}
OfAccount == {"resend", "forgot"}
LetterKind == NewAccount \cup OfAccount \cup {"invite"}

MailInit ==
  /\ known = {} /\ tokens = {}
  /\ posting = [r \in Poster |-> NotPosting]
  /\ errands = {} /\ mailbox = {} /\ mailLog = {}
  /\ written = 0 /\ dropped = {}

-----------------------------------------------------------------------------
(* In the request *)

\* Fault: the letter is sent at once, whoever sends it.
AtOnce_Always(kind) == TRUE

\* schedule_email without the background tasks of the response
AtOnce(kind) == kind # "invite"

ToSend(letter) == [letter |-> letter, step |-> "send", sent |-> FALSE]

\* send_verification_email, send_password_reset_email, send_welcome_email,
\* send_org_invite_email: the token is flushed, not committed.  The letter and its
\* row of the log name the user; an invite may name none.
Write(r, kind, a) ==
  /\ posting[r] = NotPosting
  /\ kind \in NewAccount => a \notin known
  /\ kind \in OfAccount => a \in known
  /\ written < MaxLetter
  /\ written' = written + 1
  /\ LET letter == [id |-> written', kind |-> kind, to |-> a,
                    user |-> kind # "invite" \/ a \in known]
     IN /\ posting' = [posting EXCEPT ![r] = letter]
        /\ errands' = errands \cup (IF AtOnce(kind) THEN {ToSend(letter)} ELSE {})
  /\ UNCHANGED <<known, tokens, mailbox, mailLog, dropped>>

\* users.email is unique.  A welcome has no link.
CommitPost(r) ==
  LET letter == posting[r]
  IN /\ letter # NotPosting
     /\ letter.kind \in NewAccount => letter.to \notin known
     /\ known' = known \cup (IF letter.kind \in NewAccount THEN {letter.to} ELSE {})
     /\ tokens' = tokens \cup (IF letter.kind = "welcome" THEN {} ELSE {letter.id})
     /\ errands' = errands \cup (IF AtOnce(letter.kind) THEN {} ELSE {ToSend(letter)})
     /\ posting' = [posting EXCEPT ![r] = NotPosting]
     /\ UNCHANGED <<mailbox, mailLog, written, dropped>>

\* The transaction is undone, and the background tasks with it.
UndoPost(r) ==
  /\ posting[r] # NotPosting
  /\ posting' = [posting EXCEPT ![r] = NotPosting]
  /\ UNCHANGED <<known, tokens, errands, mailbox, mailLog, written, dropped>>

-----------------------------------------------------------------------------
(* Afterwards *)

\* _resend_send_sync, on a thread.
SendLetter(e, ok) ==
  /\ e.step = "send"
  /\ mailbox' = IF ok THEN mailbox \cup {e.letter} ELSE mailbox
  /\ errands' = (errands \ {e}) \cup {[e EXCEPT !.step = "log", !.sent = ok]}
  /\ UNCHANGED <<known, tokens, posting, mailLog, written, dropped>>

\* _write_log in a session of its own: without the row of the user the foreign
\* key fails, which is swallowed.
LogLetter(e) ==
  /\ e.step = "log"
  /\ mailLog' = IF e.letter.user => e.letter.to \in known
                THEN mailLog \cup {[letter |-> e.letter, sent |-> e.sent]} ELSE mailLog
  /\ errands' = errands \ {e}
  /\ UNCHANGED <<known, tokens, posting, mailbox, written, dropped>>

\* The process stops: what is in its memory is gone.
StopPosting ==
  /\ errands # {}
  /\ dropped' = dropped \cup {e.letter : e \in errands}
  /\ errands' = {}
  /\ posting' = [r \in Poster |-> NotPosting]
  /\ UNCHANGED <<known, tokens, mailbox, mailLog, written>>

\* The reader follows the link, which works once.
FollowLink(letter) ==
  /\ letter.id \in tokens
  /\ tokens' = tokens \ {letter.id}
  /\ UNCHANGED <<known, posting, errands, mailbox, mailLog, written, dropped>>

-----------------------------------------------------------------------------

MailNext ==
  \/ \E r \in Poster :
       \/ \E kind \in LetterKind, a \in Addressee : Write(r, kind, a)
       \/ CommitPost(r) \/ UndoPost(r)
  \/ \E e \in errands : LogLetter(e) \/ \E ok \in BOOLEAN : SendLetter(e, ok)
  \/ StopPosting
  \/ \E letter \in mailbox : FollowLink(letter)

Letter == [id : 1..MaxLetter, kind : LetterKind, to : Addressee, user : BOOLEAN]

\* The type of the state.
MailTypeOK ==
  /\ known \subseteq Addressee /\ tokens \subseteq 1..MaxLetter
  /\ posting \in [Poster -> Letter \cup {NotPosting}]
  /\ errands \subseteq [letter : Letter, step : {"send", "log"}, sent : BOOLEAN]
  /\ mailbox \cup dropped \subseteq Letter
  /\ mailLog \subseteq [letter : Letter, sent : BOOLEAN]

-----------------------------------------------------------------------------
(* Properties *)

\* No letter of an invite is on its way before its request has committed, so
\* that its link works.  Every letter has one row of the log, which tells whether
\* it arrived, but for those lost with the process and those whose account was
\* not there when they were logged (services/email.py, "Always logs to
\* email_log", "by the time it runs, get_db has already committed").
MailIsAccountedFor ==
  /\ \A r \in Poster : posting[r].kind = "invite" =>
       posting[r] \notin mailbox /\ \A e \in errands : e.letter # posting[r]
  /\ \A l, k \in mailLog : l.letter = k.letter => l = k
  /\ \A l \in mailLog : l.sent <=> l.letter \in mailbox
  /\ \A letter \in mailbox :
       \/ \E l \in mailLog : l.letter = letter
       \/ \E e \in errands : e.letter = letter
       \/ letter \in dropped
       \/ letter.kind \in NewAccount
=============================================================================
