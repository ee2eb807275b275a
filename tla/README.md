# NEXTPLAY in TLA+

TLA+ modules, TLC configurations and TLAPS proofs for the backend of NEXTPLAY
(`src/src`, a FastAPI application on PostgreSQL): a coaching assistant for
basketball clubs with an organization side that sends documents to parents,
collects their signatures and sends them messages. This file says what the
system consists of, which module models which part, what each run and each
proof shows, and what is left.

## How the program runs, and how that is modelled

The application runs as two uvicorn worker processes on one PostgreSQL
database. Three things follow, and every module rests on them:

* **A request is a transaction** (`core/database.py:81-105`, `get_db`). The
  handler reads rows into ORM objects, checks its guards on what it read, assigns
  columns, and `get_db` commits once the handler has returned; an exception rolls
  everything back. The isolation is PostgreSQL's default, read committed, and no
  handler of the modelled parts locks a row. So a handler is modelled as a *read*
  action, which takes a snapshot of what the handler read into a request
  record, and a *commit* action, which writes the assigned columns with the
  values computed from that snapshot. Between the two, other requests commit:
  lost updates and write skew are part of the model. Where a handler calls
  something slow in between (rendering a PDF, sending an SMS), there is a further
  step. An abort action stands for every exception after the read.
* **Background tasks run after the commit**, one after the other, in the process
  that served the request. They live in memory only: a crash loses them.
* **Cron runs are HTTP calls** of an external scheduler
  (`api/internal_cron.py`). Nothing keeps two runs from overlapping.

Time is a bounded counter where a deadline matters, an input otherwise. Keys,
hashes and cookies are ideal: a hash is an injective record, a cookie cannot be
forged. Wording, layout and logging are left out, and of the audit log all but what `AdminOrgs`
reads of it.

## Inventory

The components, what they keep, what they do and what is hard about them
(`PROJECT.json` lists the source files of each).

| Component | State | Operations | Hard part | What makes it correct |
|---|---|---|---|---|
| One-time codes | `otp_attempts` rows, signing-session cookies | request, verify | count then insert; counters written from stale reads; three handlers linked by a cookie | limits hold up to the requests in flight; a used code stays used; a session follows a verified code of its delivery |
| Signing page and submission | `document_deliveries`, `document_campaigns.total_signed` | view, submit | PDF rendering between guard and commit | no signature without a verified code; signed once; the status moves forward |
| Audit chain | `self_hash`, `prev_hash` of signed rows | link, verify | order of ids is not order of signing; look-back limit; only changed columns are written | every row recomputes with the method its submission named; links stay in the organization; the verifier accepts what the code built |
| Messages | `messages`, `message_deliveries` | draft, schedule, send, edit, delete, promote, dispatch | overlapping sends and cron runs; counters; in-memory queue; one failing message of a batch; recipients purged meanwhile | counters match rows; SENT means done; nothing scheduled goes early; everything due goes out |
| Campaigns, templates, reminders | `document_campaigns`, `document_templates`, reminder columns | create and send, complete, reopen, delete, dispatch, remind | stale guard on a template; overlapping reminder runs; crash between send and commit | at most two reminders, spaced; failed counter matches rows |
| Accounts and tokens | users, refresh, reset and verification tokens | login, refresh, logout, reset, verify, change password, delete | two refreshes with one token; a refresh racing a reset | a token is used once; after a reset no older session survives |
| E-mail | `email_log`, letters in flight | write, send, log | letters sent beside the request that writes their link | a link in an invite works; every letter has one row of the log |
| OAuth | `social_accounts`, `users.email` | callback | overlapping callbacks and deletions between lookup and link | an identity keeps its user |
| Rate limiter | timestamps per client and process | let through, turn away, clean up | clean-up of what is still in the window | no more than the cap in any window of a process |
| Trial, purge, club codes | plan and dates of an account, its rows | expire, purge, join a club | a purge decided on an account read before it joined | nothing is deleted before the grace is over |
| Invites and memberships | `org_invites`, `user_organizations`, the coach of a team | invite, accept, redeem, cancel, change role, remove, assign | two administrators removing each other; a code used by overlapping requests; a coach read before the commit | an invite is used once; an organization keeps an administrator; the roster follows the coach |
| Organization structure | regions, branches, programs, teams | create, move, delete, rescope | two schemes of region; what is pinned to what is deleted | what a manager opens is what is listed |
| Recipients, lists, dashboards | none (queries) | list, count, resolve, deliver | each page narrows its query in a way of its own | the pages of a manager agree and stay in the manager's place |
| Organization pages | session cookie | show, redirect, log in, switch role | the membership behind the cookie changes | redirects come to an end |
| Practice and calendar | sessions, series, attendance | create, edit, cancel, delete, mark | edits of one, a weekday or all; cascades | a deletion takes what was asked for and what hangs on it |
| Scouting | videos, files in S3, clips, playlists, links | presign, upload, complete, register, delete, purge, share | two stores without a common transaction; size and key as the browser tells them | files registered in good order are paid for; a share is found again |
| Chat and memory | conversations, memories | send, stream, extract, switch team | rows of one time, overlapping turns, a closed session | a turn sends its own message once |
| Agents and tools | teams, players, costs, router cache | route, call tools, answer, apologize | a tool's effects against the fate of its turn; a team that changes hands | tools show and promise what is the coach's and saved |
| Web research | result cache | plan, search, triage, fetch, extract, report | answers filed under an hour and a coach | answers are of the coach who asked |
| Uploads, knowledge base | files on disk, upload rows; manifest, chunks | write, check, describe, keep; hash, extract, add | names chosen before the write; overlapping and interrupted runs; ids that keep their text | uploads stay apart; what is recorded is whole |
| Push | subscriptions, push log | subscribe, run jobs, test | pushes leave before the single commit | reminders keep their distance |
| Teams, players, notebook, plays, roadmap | a coach's own rows | create, edit, delete, import, extract, share, count | requests that merge onto what they read; counts one by one | what was recorded is kept; plays and roadmap are the coach's own |
| Admin panel | organizations, seats, trail; tasks, lists | wizard, update, delete, assign, revoke; tasks, lists | checks of overlapping requests; the trail written with them | the trail replays to the state; names stay apart; a done task is stamped |
| SMS gateway, PDF, settings | none | send, render | none between actors, or external | not modelled |

Interactions. A campaign creates deliveries and queues their dispatch; a dispatch
sends the link that opens the signing page; the page asks for a code, the code
gives a session cookie, and the submission needs it and extends the audit chain.
Reminders read the deliveries the signing page changes. Messages resolve
recipients as campaigns do and share the SMS gateway. Memberships decide who may
send, and a scheduled message looks its sender's membership up again when it is
due. The organization hands a coach's team to another coach, and the tools, plays
and roadmap of the first go on with the team that was active. A turn of the chat
calls the agents' tools, these the research and the knowledge base; uploads of a
turn are described by the same models. Invites and resets send the letters whose
links accounts and memberships consume.

## Modules

| Module | Models | State and actions |
|---|---|---|
| `DocumentDeliveries` | the rows the signing flow works on | constants: deliveries, their organization, campaign and expiry |
| `OtpVerification` | `public_sign.py` request_otp and verify_otp, `otp_attempts_repo.py`, `signing_session.py` | `otp` (table), `session` (cookies), `otpReq` (requests in flight), `now`, `drawn`; actions `RequestOtpRead/Commit`, `VerifyOtpRead`, `VerifyOtpReject`, `VerifyOtpAccept`, `AbortOtp`, the clock |
| `AuditChain` | `audit_chain.py` | pure operators over the columns: `CanonicalPayload`, `ComputeSelfHash`, `GetLastOrgHash`, `BuildSignedAudit`, `VerifyOrgChain`; a hash is the record it digests |
| `DocumentSigning` | `public_sign.py` signing_page and submit_signature; composes the three above | `status`, `audit`, `final`, `method` (a column of its own, since a submission may name none and only what differs from what was read is written), `totalSigned`, `signReq`, `signLog`; actions `SigningPageRead/Commit`, `SubmitRead` (guards, then rendering), `SubmitReadChain` (last hash), `SubmitCommit`, `AbortSign` |
| `SigningPromise` | the promise to the sender of a document, abstractly | `confirmed`, `signed`; `Confirm`, `Sign`. `DocumentSigning` implements it (`Promise`, `KeepsPromise`): `confirmed` is the deliveries with a verified code, `signed` those whose submission was committed |
| `MCDocumentSigning` | instances for TLC | two or one organizations and campaigns, one delivery that expires early, symmetry |
| `DocumentSigningProofs` | theorems about `OtpSpec` and the composed `Spec` | |
| `MessageDispatch` | `org_messages.py`, `message_service.py`, `scheduled_message_worker.py`, `message_send_worker.py` | `msg`, `row`, `purged` (deliveries that went with their player), `due`, `seats` (active memberships of the sender), `run` (what each request or cron run is doing), `faults`, history `releases`, `sends`; actions named after the handlers, `SendRefused` and `CronFail` (a filter `resolve_recipients` cannot evaluate), `DispatchLost` (message or player gone), `PlayerPurged`, `Crash` |
| `MCMessageDispatch` | instances for TLC | `scene`: "overlap" (requests and cron runs on one message) or "queue" (one request and one cron run on all messages, filters that raise, a purge) |
| `MessageDispatchProofs` | theorems about `MessageDispatch` | |
| `CampaignDispatch` | `org_document_templates.py`, `org_document_campaigns.py`, `document_send_worker.py`, `reminder_service.py` | `tpl` (flags of a template), `camp` (`total_failed`), `dlv` (columns of a delivery), `run` (what each request, queue or reminder run is doing), `now` (days), `faults`, history `nudges`; actions `TemplateRead/Commit`, `CreateRead/Commit`, `DispatchRead/Commit`, `RemindersRead`, `ReminderRead`, `ReminderSend`, `ReminderNotSent`, `ReminderCommit`, `Sign`, `Crash`, `Tick` |
| `MCCampaignDispatch` | instance for TLC | |
| `CampaignDispatchProofs` | theorems about `CampaignDispatch` | |
| `AccountTokens` | `api/auth.py`, `api/email_auth.py`, the login of `api/oauth.py`, `auth_service.py`, `auth_repo.py` | one account: `user`, `refresh` (tokens by id), `mail` (links by id), `access`, `req` (requests in flight with what they read), history `ended`, `uses`; `...Read` and `...Commit` of login, refresh, logout, verify-email, reset-password, change-password and delete-account, `UserUpdate` (the step of the last three that locks the users row and finds the tokens to revoke), `SendLink`, `Abort`, `Expire` |
| `AccountTokensProofs` | theorems about `AccountTokens`, `MailDispatch`, `SocialSignIn`, `RateLimit` and the entrance | |
| `MailDispatch` | `services/email.py`, `email_service.py` and their callers | `known`, `tokens` (committed), `posting` (requests), `errands` (letters to send), `mailbox`, `mailLog`; `Write`, `CommitPost`, `UndoPost`, `SendLetter`, `LogLetter`, `FollowLink`, `StopPosting` (the process dies) |
| `SocialSignIn` | `api/oauth.py` | `userAt`, `linkOf`, `callback` (what each has read); `CallbackRead`, `EnterCommit`, `LinkCommit`, `CallbackFails`, users that come and go |
| `RateLimit` | `middleware/rate_limit.py` | `hits`, `cleaned` per process; `LetThrough`, `TurnAway`, `RestartWorker`, the clock |
| `MCAccountTokens` | host "the entrance": the four modules above, side by side | |
| `OrgMembers` | `api/org.py`, `api/org_users.py`, `api/org_teams.py` (assign_coach), `api/org_players.py` | `members`, `invites`, `team`, `roster`, `visit` (requests and what they read); `...Read` and `...Commit` of redeem, accept, cancel, update, remove, assign and unassign coach, and of a new player; `RedeemTeamRead` (whether the team has a coach) |
| `OrgMembersProofs` | theorems about `OrgMembersSpec` | |
| `OrgStructure` | `api/org_regions.py`, `org_branches.py`, `org_programs.py`, `org_teams.py` | `regions`, `branches`, `teams`, `scope`; create, update and delete of each, `Rescope` |
| `OrgReach` | `org_players.py`, `org_dashboard.py`, `org_analytics.py`, `org_practice.py`, `recipient_resolver.py`, `org_document_templates.py` | no state: the set of teams each page's query covers, for every role and filter, over `OrgStructure` |
| `OrgPages` | `api/org_pages.py`, login and role switch | `cookie`, `held` (memberships), `browser`; `Open`, `Follow`, `LogIn`, `SwitchRole`, `LogOut` and changes of the memberships |
| `AdminOrgs` | `api/admin_orgs.py`, `admin_org_wizard.py`, `org_wizard_service.py`, `org_audit_service.py` | `organizations`, `accounts`, `seats`, `firstInvites`, `trail`, `desks`; `...Read` and `...Commit` of create, wizard, update, delete, assign, revoke |
| `AdminDesk` | `api/admin_tasks.py`, `admin_emails.py` | `tasks`, `items`, `lists`, `listMembers`, `hands`; reads and commits of tasks, subtasks, comments, lists and members |
| `MCWorkspace` | host "the organization": the signing flow and the six modules above, side by side | |
| `WorkspaceProofs` | theorems about `AdminOrgs`, `AdminDesk`, `OrgStructure` with `OrgReach`, `OrgPages`, and the host | |
| `TrialPurge` | `auth/purge_service.py`, `api/deps/auth.py` | `account`, `rows`, `visiting`, `day`, history `marked` (the day first marked expired); `Arrives`, `FlipToExpired`, `PurgeUserData`, `Serve`, `JoinClub` |
| `Practice` | `api/org_practice.py`, `api/coach_practice.py` | `events`, `series`, `sheets`, `marking`; create, update and delete of one event, a weekday, a series, `MarkRead/Commit` |
| `ScoutingVideos` | `api/scouting.py`, `services/s3.py` | `bucket` (S3), `videos`, `deleting`; `PresignUpload`, `PutFile`, `CompleteMultipart`, `RegisterVideo` (any key handed out, any size), `DeleteVideoFile/Commit/Abort`, `PurgeVideos` |
| `ScoutingLibrary` | `api/scouting.py` | `clips`, `annotations`, `playlists`, `items`, `shares`, `sharing`; the handlers by name |
| `Chat` | `chat_service.py`, `memory_extractor.py` | `conversations`, `turns`, `memories`, `activeTeam`; `BeginTurn`, `AskModel`, `Answered`, `AnswerApologizes`, `TurnLost`, `Remember` |
| `AgentTools` | `crew/`, the tool loops of `chat_service.py` | `trainerOf`, `benched`, `signedUp`, `routes`, `kb`, `asks`, `ledger`; the router, `CallTools` with each tool, `AnswerAsk`, `ApologizeForAsk`, `AskLost`, `HandOver` |
| `WebResearch` | `research/` | `shelf` (cache), `clock`, `seeks`; one action per stage, `PipelineFails`, `TakeAnswer` |
| `ChatUploads` | `upload_service.py`, `chat_upload` of `api/chat.py`, `vision.py` | `disk`, `uploadRows`, `sends`; `ChoosePath`, `WriteFile`, `RefuseFile`, `DescribeFile`, `KeepFile`, `AnswerUpload` |
| `KnowledgeIngest` | `services/kb_ingest.py` | `library`, `manifest`, `collection` (chunks with the version of their text), `ingests`, history `stale`; `HashDocument`, `ExtractText`, `AddBatch`, `EndIngest`, `StopIngest` |
| `PushJobs` | `api/push.py`, `services/push_service.py` | `prefs`, `device`, `pushLog`, `diary`, `jobs`, `hour`; `LeadRead`, `SummaryRead`, `Remind`, `SumUp`, `CommitRun`, `RollBackRun` |
| `CoachRoster` | `api/teams.py`, `api/players.py`, `onboarding_service.py`, `add_player` of the tools | `teamRows`, `atTeam`, `playerRows`, `working`; teams, players, `EnterMetrics`, `ModelScores`, `CommitMetrics` |
| `Notebook` | `api/notebook.py`; extends `CoachRoster` | `entries`, `lines`, `importing`; entries, `LookForLines`, `CommitImport`, `FailImport` |
| `Playbook` | `api/plays.py` | `plays`, `handedOut`, `edits`, `courtOf`, `courtNow`; create, `UpdatePlayRead/Commit/Fails`, delete, share |
| `Roadmap` | `onboarding_service.py`, `api/onboarding.py`; extends `Playbook` | `bench`, `pages`, `opened`, `looks`; `BeginLook`, `CountNext`, `ShowRoadmap`, `MarkEvent` and the rows counted |
| `MCCoachDesk` | host "the coach": the fourteen modules above, side by side | |
| `CoachRecordsProofs` | the inductive invariants and steps of `TrialPurge`, `Practice`, `CoachRoster`, `Notebook`, `ScoutingLibrary`, `PushJobs` | |
| `CoachDeskProofs` | the same for `ScoutingVideos`, `ChatUploads`, `KnowledgeIngest`, `Chat`, `AgentTools`, `WebResearch`, `Playbook`, `Roadmap`; theorems about the host "the coach" | |

An operator whose comment starts with *Fault* is not part of the specification:
it is the changed form of the definition after it that shows a property would
notice such a change (`PROJECT.json`, "mutants"). A history variable or field
(`raced`, `drawn`, `meant`, `pushed`, `contested`, `dropped`, `marked`, `stale`, `inOrder`, `late`, ...) records what
happened for a property to refer to; no guard reads it.

The three hosts. Components that share no state need no product of their state
spaces. A host extends the modules and adds a variable `part`: it is chosen at the
start, the component it names moves, the others stand still in one initial state.
So one run explores the union of the components, and an invariant of any of them is
checked over all of its states. Where the product within one component is too large
(invites with members and with rosters, entries with imports, ...) it is cut into
several parts with a bound of its own, named and commented in the host
(`OneInvite`, `OneRequest`, `OnThree`, `OneLine`, `OneAgent`, `OneReader`, `OneLook`,
...): each restricts the model to fewer rows or overlaps, none changes an action.

## Runs

| Run | Question | Bounds |
|---|---|---|
| `signing_flow` | under every interleaving of issuing, verifying, signing, rollback and the clock: the budgets of codes, sessions that follow verified codes, no signature without one, no used code handed back, and the abstract promise kept | 2 deliveries (one expires), 2 code requests and 1 submission in flight, 3 codes, clock 0..1 |
| `signing_twice_raced` | violation: two overlapping submissions both sign | 2 deliveries, 2 submissions |
| `chain_out_of_id_order` | violation: signing the higher id first leaves a chain the verifier rejects | 2 deliveries, 1 submission |
| `message_dispatch` | counters, SENT, the time of a scheduled message, and that what is sending or due gets through | "overlap": 1 message, up to 2 recipients and 3 deliveries, 2 web requests, 2 cron runs; "queue": 2 messages, 1 per cron run, 1 request, 1 cron run, a filter that raises, 1 purged player; 1 crash |
| `campaigns` | the cap and the spread of reminders with two overlapping runs and a crash, the failed counter, every delivery dispatched | 1 template, 1 campaign of 2 deliveries, 1 edit, 2 reminder runs, limit 1, days 0..2 with a reminder after 1, 1 crash |
| `reminders_rerun` | violation: a run started while another is under way reminds the same parent twice on a day | 2 deliveries, 2 runs, a reminder after 2 days |
| `account_tokens` | the entrance. Whatever two requests of one account overlap: what ends sessions ends them, a rotation leaves one live token, a link is used once, but for what the overlap itself caused. Letters are accounted for, an identity keeps its user, no client passes the cap | 2 requests, 3 refresh tokens, 1 link, no clock: any token may expire at any time; 2 letters to 2 accounts; 2 callbacks, identities and addresses; 1 process, 2 clients, a cap of 2 in a window of 2 of 5 ticks |
| `refresh_twice_raced` | violation: two overlapping refreshes with one token both get a new one | 2 requests, 3 refresh tokens |
| `workspace` | the organization. Every chain row recomputes and stays in its organization under overlapping submissions, and one at a time the counter is exact, the chain verifies by id and the status moves forward; an organization keeps an administrator, an invite is used once, the roster follows the coach, the pages agree on a manager's scope, only users whose one membership changed are redirected without end, and the administrator's trail replays to the state, but for initial statuses | 5 deliveries of 2 organizations, one signed before there was a chain, look-back 2; 2 requests; 2 people, 2 invites, 3 memberships, 1 player; 2 regions and programs, 1 branch and team; 2 organizations, a trail of 4; 1 task with 2 items, 2 lists |
| `coach_desk` | the coach. Files are paid for, kept apart and whole; shares are found again; a turn, a tool, a research run, a play and the roadmap show and promise what is the coach's; deletions wait for the grace and take what was asked for; reminders keep their distance; what is recorded of a player is kept | 2 requests, coaches, teams, players, files, clips, games and documents (1 or 3 where `MCCoachDesk.cfg` says so), days and hours 0..3 |
| `role_select_loops` | violation: a user whose only membership got another role is redirected for ever | 2 organizations, 1 browser |
| `messages_poison` | violation: a due message whose sender has two memberships keeps all others back | 2 messages, 1 cron run |

Why the bounds are enough. Every hazard of the list needs at most two
actors on one row and a third step of one of them: two requests in flight cover
every pairwise race, and a limit of one makes the budget of a third visible.
Two owners (coaches, organizations, identities) are the least for something to be
another's; two messages with one per cron run the least for one to wait for
another; two rows of a kind the least for one to be mistaken for the other.
The clock needs one tick per deadline to separate before from after. Three
deliveries of two organizations are the least with a foreign row between two of
the same chain; five with a look-back of two are the least at which the query's
limit could cut off a row of another kind.

### What the violations show

* `signing_twice_raced`: the check on `SIGNED` and the update are separated by
  the rendering of the PDF. Two submissions both sign; the second replaces
  the first signature and both count.
* `chain_out_of_id_order`: `get_last_org_hash` orders by id, signatures do not
  arrive by id. A lower id signed later is linked behind a higher one; the
  verifier, which walks by id, reports a missing predecessor without any
  tampering.
* `reminders_rerun`: `dispatch_reminder` rechecks whether the document is signed
  and the count is below the maximum, not whether the days have passed since the
  last reminder. What two overlapping runs both found is reminded of by both.
* `refresh_twice_raced`: `rotate_refresh` looks the token up and later revokes it
  with an UPDATE whose row count nobody reads. Two requests that presented the
  same token both issue a new one, and the login goes on with two.
* `role_select_loops`: the role selection sends a user with one membership straight
  to its dashboard without changing the cookie; the dashboard finds that the
  role of the cookie is not held and sends back to the role selection.
* `messages_poison`: `_materialize_actor` expects at most one active membership,
  but a user may have one per role. The exception leaves `run_scheduled` before
  its only commit, so nothing due is released, for any organization, as long as
  that message is due.

The properties of `AccountTokens` say what the overlap of requests excuses: a
refresh token is `raced` if a request it descends from was in flight together with
another one of the account, and a use of a link is counted unless the request
that used it was. So the one run that has every interleaving still checks
that whatever ran alone did what it should; the excused cases (a refresh that
outlives a reset, a logout that misses the rotated token, a link used twice) are
listed as hazards. That the excuse covers no more than the overlap is what
the mutants show: each breaks a property with no request overlapping.

Behaviour the models contain, that a property states as its exception and no run
is spent on: of two overlapping submissions of one delivery, the second naming no
method, the stored method is the first's and the digest the second's, so that
`verify_org_chain` reports the row in `broken_at` (`public_sign.py:447`; hence the
second part of `ChainRowsRecompute`); a page view that read
`NOT_OPENED` sets a signed delivery back to `OPENED` (`public_sign.py:138`),
`total_signed` loses or doubles an increment (`:461`), more than
`max_attempts` wrong codes can be answered by concurrent verifications (`:333`),
and the hourly limit of codes can be exceeded by the requests in flight (`:211`,
bounded by `IssueOvershootBounded`). The first two are why `StatusMovesForward`
and `ExactWithoutOverlap` speak of the part of `workspace` with one request at a
time. A completion and a deletion of a template that both read before either
commits leave it completed and inactive, which no handler undoes. In
`CampaignDispatch` a day does not pass within the transaction of one dispatch, which
takes seconds; it may between two dispatches of a batch. The look-ahead of the
reminder query (twice the limit, `reminder_service.py:80`) can hide due rows behind
rows that wait for their second reminder; that delays them, and no property
states it.

The other modules excuse overlaps in the same way as `AccountTokens`, each by a
history of the rows that a raced request wrote (`raced`, `overlapped`, `asRead`,
`contested`), so that every interleaving is explored and everything not caused by
the overlap itself must hold.

### What modelling showed besides

Behaviour of the code that is in the models, that a maintainer may want to know
of, and that no run is spent on:

* Chat. The answer of a streamed turn is added to a session FastAPI has already
  closed and is never saved (nor are its players and costs); the tests' `StaticPool`
  hides it. Memories are written and never read. Uploads of an aborted turn leave
  files without rows.
* Agents. Costs of earlier round trips are not logged when a later call of the model
  fails; the router remembers its failure default for the life of the process; the
  active team is followed whoever coaches it now, and `get_team_profile` and the context
  of the turn show it (`tools.py:198-214`, against `tools.py:4-5`); `tools=[]` is sent for the guide.
* Research caches notes of failure for the hour, though only useful results are said
  to be cached.
* Uploads choose a name before they write it; a failed text extraction is recorded
  as ingested and not retried. Ingesting a changed document leaves the text of the
  chunks that are there (`collection.add`, `knowledge_base.py:193`) and records the new
  digest (`kb_ingest.py:16-17` says changed files are processed).
* Scouting. A video counts in the quota with the size the browser tells, or none, and
  under any key it was handed (`scouting.py:481`). A list that repeats a clip gets a
  link of its own (`:1341`, against `:1260-1261`).
* Purge. A request that found an account due before it joined a club purges it
  although it is in one by then (`purge_service.py:10-11` exempts it). The team is deleted before rows that refer to it, and usage logs never are,
  so a purge of an account that has them fails with every later request; S3 objects of
  purged videos stay.
* Memberships. A removed member cannot return in the same role; an accepted link
  drops the program; two administrators can demote each other; handing a
  team to a coach by hand leaves the players with the old one. Whether a team has a
  coach is read before the commit, so a redeem overwrites one assigned meanwhile,
  which the comment at `org.py:740-746` rules out. Updates of a member write changed
  columns only: two at once may leave a program manager without a program. The role is
  checked stripped and in lower case and stored as sent (`org_users.py:500`, `:519`).
* Structure. A manager whose region is deleted lists no teams but finds the players
  and the calendar of the whole organization; recipients reached directly by a region
  are not found through branches; the branch manager's calendar is organization-wide.
  Whom a program manager's messages reach is the whole organization, and so are
  players named one by one, for anybody (`recipient_resolver.py:12-15` says narrowed).
* Practice. An edit of a series puts all its events at one moment; an event edited
  alone is deleted with another one, past events too, though "past occurrences are
  kept" (`org_practice.py:615-619`) and "this" is one event (`coach_practice.py:12`); two attendance marks at once make every later
  one fail.
* Push. A refused reminder is never retried; `last_seen_at` is never set, so the
  job for inactive coaches finds nobody (and is left out).
* Coach. `active_team_id` may dangle until a page load; extraction and import
  overwrite or fail under overlaps; two updates of a play mix.
* Admin. The status an organization is created with by hand comes from the request
  and is not in the trail (`admin_orgs.py:158`, `:171`). Soft-deleted slugs look free to the check and fail at the commit; a deleted
  account's address stays taken; the last administrator can be revoked; an audit
  failure in the database undoes what it was to tell of.
* Messages. POST checks no more of a stored filter than its type; one that cannot be
  evaluated fails every cron run it is in, as a sender with two memberships does. A
  delivery goes with its player (cascade), so the `FAILED` that
  `message_send_worker.py:93-104` gives it finds no row and is rolled back with its
  transaction; a message that lost a pending delivery so stays `SENDING` for ever.
* E-mail. Letters of registration, reset and welcome are sent beside their request
  and not after its commit.
* Audit chain. The hash a signature links to is looked for among the fifty highest
  ids that are signed (`get_last_org_hash`). If fifty deliveries with higher ids were
  signed before there was a chain, they hide its last row, and the next signature
  starts again from genesis, which the verifier refuses; TLC shows it with a look-back
  of two, and the theorem about the verifier assumes fewer such rows.
* SMS. No real provider exists yet; `RealSMSProvider.send` passes no session to the
  audit, so its attempts reach the log of the process only, and the whitelist
  compares digits as written, so a number with its country code is not the number
  without it.

## Fairness

The signing modules are checked for safety only: a parent may stop at any point.
`MessageDispatch` assumes weak fairness of `Proceed(r)`, that a request, cron run
or queue that has begun goes on, since the event loop schedules it and every
external call has a timeout, and of `CronRead(r)`, since the scheduler keeps
calling. It assumes nothing of users. `CampaignDispatch` assumes weak fairness of
`Proceed` alone. The three hosts are checked for safety only: their requests do not
wait for one another, and what a client does not ask for need not happen. `SendingFinishes` and `PendingDispatched` hold as long as no
process dies, which they state by their premise `[](faults = 0)`: what a crash
loses, nothing in the code picks up again. `SendingFinishes` assumes besides that no
player of the message is purged, `DueReleased` that no due message makes the run
fail (`messages_poison` shows that one is enough). The host of TLC assumes less than
`MessageDispatch`: that one cron run only is started again and again.

## What is proved

For every value of the constants, every number of requests, deliveries, messages,
tokens, members and files. Each module of theorems extends the module, or the host,
it is about.

The signing flow (`DocumentSigningProofs`):

| Theorem | Says |
|---|---|
| `OtpTypeCorrect`, `TypeCorrect` | the code endpoints, and the whole flow, are well-typed |
| `AttemptsStayWithinMax` | no counter of a code passes `max_attempts` |
| `SessionsFollowCodes` | a cookie exists only for a delivery with a verified code and is dated after it |
| `VerifiedStaysVerified` | no step takes the verification of a code back |
| `IssueOvershootStaysBounded` | the codes of the last hour exceed the limit by at most the requests in flight |
| `CodesKeptInFlow` | all of these hold of the composed flow |
| `SignaturesNeedVerifiedCodes` | no delivery that requires a signature is signed without a verified code of its own |
| `ChainRowsAlwaysRecompute` | every row of every chain recomputes with the method its last submission named, which is the stored one unless the delivery was signed more than once |
| `LinksAlwaysStayInOrg` | no link leaves its organization or points at its own row |
| `FlowKeepsPromise` | the flow implements `SigningPromise` |
| `CounterExactWithoutOverlap` | one request at a time, `total_signed` counts the signed deliveries |
| `StatusForwardWithoutOverlap` | one request at a time, no status goes back |
| `ChainVerifiesWithoutOverlap` | one request at a time, in the order of ids and with fewer rows without a chain than the look-back, the verifier accepts every chain |

Messages, campaigns, accounts, memberships, files:

| Module | Theorem | Says |
|---|---|---|
| `MessageDispatchProofs` | `MessagesTyped` | messages, recipients and runs are well-typed |
| | `CountersAgree` | the counters of a message released once are those of its rows, purged ones included |
| | `SentIsDone` | such a message is SENT only when no row is pending |
| | `ScheduledWaits` | a scheduled message is changed only once it is due |
| `CampaignDispatchProofs` | `CampaignsTyped` | templates, campaigns, deliveries and runs are well-typed |
| | `FailedCountExact` | `total_failed` counts the failed deliveries |
| | `RemindersSpread` | within `reminder_after_days` at most as many reminders as overlapping runs, one more per crash, and the cap holds |
| `AccountTokensProofs` | `AccountTypeCorrect` | tokens, links and requests of an account are well-typed |
| | `SessionsStayCurrent` | a refresh token that works is of the current password, an existing account and a login not logged out, up to overlaps |
| | `RotationLeavesOne` | two working refresh tokens of one login both come from overlapping requests |
| | `LinksAreSingleUse` | a link is used at most once by requests that overlapped no other |
| | `SessionsInTheEntrance` | these hold of the entrance too |
| | `EntranceTyped` | so do the types of its parts |
| | `EntranceSafe` | letters are accounted for, and no client passes the cap in any window |
| | `IdentitiesStay` | an identity leaves a user who lives only where an overlapping callback moved it |
| `OrgMembersProofs` | `MembersTyped` | a person has a role once, with the scope it needs but for a link or overlapping updates |
| | `CodesForOneUse` | an invite leads to one member at most by requests that overlapped no other |
| | `AdminsStay` | an organization keeps an administrator, up to overlaps |
| | `RostersFollow` | however requests overlap, the players of a team are its coach's, but for those left behind when a coach is set by hand and those added by a request that overlapped |
| `WorkspaceProofs` | `NamesStayApart` | no two organizations, deleted ones included, share a slug or a subdomain |
| | `TrailAlwaysReplays` | the audit trail tells deletion, administrators and invites of every organization, and its status unless that is still the one given by hand |
| | `DeskAlwaysAddsUp` | tasks, subtasks and lists agree, up to overlaps |
| | `ScopesAlwaysAgree` | a manager whose place was not deleted has the same teams on every page, managers of a place stay in it, and a program manager reaches the whole organization |
| | `LoopsOnlyOfTheMoved` | only a user whose one membership is not the one in the cookie is redirected in circles |
| | `WorkspaceTyped`, `AdministrationAlwaysHolds`, `ExactUnlessOverlapped`, `StatusOnlyForward`, `OrganizationKept`, `ChainKeptInWorkspace` | what is proved of each part holds of the organization as a whole |
| `CoachDeskProofs` | `FilesStayKept` | stored files registered after their upload with their size are paid for, rows lead to the file that was sent, recorded documents are whole and of the recorded version if ingested once |
| | `OwnStaysOwn` | turns, tools, research, plays and roadmap are of the coach they are for, up to overlaps |
| | `LinksAreReused` | two links to the same clips, each as often, come of overlapping requests, or one is a timeline |
| | `DeletionsStay` | a purge waits for the grace since the first marking and takes of an account in a club only by a request that found it due before; a deletion takes what was asked for and what hangs on it in its series |
| | `RemindersApart` | two reminders of a coach keep their distance, but where the first's run goes on or was rolled back |
| | `RecordsAreKept` | scores give way only to the coach or to who had not seen them, profiled players stay so, an import files a line per listed player |
| | `DeskTyped` | every part is well-typed |

### The inductive invariants

None of the properties is inductive alone. A commit writes what a read found some
steps earlier, so every invariant carries facts about the requests in flight.

*Codes and signatures.* A verification in flight read a count below the limit (that
is what keeps `attempts + 1` within it although reads are stale); one that is about
to accept names a row of its own delivery; a submission that is rendering passed
the cookie check, hence its delivery has a verified code, and codes stay verified
until it commits. `SigningInv` collects the type invariant, the OTP invariant and
these facts. For the chain it says of a submission in flight that the hash it read
is genesis or belongs to another delivery of the same organization, and of a signed
row that its digest is that of its own columns and of the method its submission named: a
commit replaces the other columns of the digest together, so with that method a row
recomputes even if two submissions of it overlap. The method stored is the first
submission's, until there is a second (`MethodsNamed`). For the
refinement, a step of the code endpoints confirms at most the delivery whose row it
verified, a commit of a submission signs a delivery that is confirmed by the fact
about submissions in flight, and every other step leaves both abstract variables
alone. The overshoot of the limit is bounded by a count that does not grow when a
code is inserted, recent codes and codes about to be inserted (`RecentAndComing`): a
request joins the second only while the first is below the limit.

*One request at a time.* Three properties of the flow fail when requests overlap
(the runs above) and hold when they do not: `SerialSpec` restricts the steps of the
specification to those after which one submission or page view at most is in flight
(`OneAtATime`), and `SerialInv` says that what this one read is still there. The
chain needs one assumption more, `FewPreChain`; without it the theorem is false, as
told above.

*Messages.* A message released once is in the hands of one runner (`OneHolder`),
which has a pending row, purged or not, and the counters as they stand (`InHands`); what was never
released has no rows and no runner (`UnreleasedUntouched`); so a dispatch that writes
its stale read back writes the truth. What the draft endpoints have read never
becomes a scheduled message (`DraftsStayDrafts`).

*Campaigns and reminders.* `DispatchInv` is the same argument for `total_failed`. For
the reminders `NudgeInv` keeps an account: of the reminders of a delivery, those not
yet recorded are in the hands of a run that has sent one or of one that died, and
while a recorded one is recent no further run takes the delivery up, so the later
ones and the runs that still hold it are no more than the runs and the crashes
together.

*Accounts.* `AccountInv` adds what a request in flight may rely on: one that
overlapped no other is alone (`UnracedIsAlone`), so what it read still holds
(`ReadsCurrent`); whoever presents a token presents the only live one of its login,
up to races (`PresentsTheOne`); and a mass revocation covers every live token that
is not raced (`RevokeCovers`), since a row inserted after its snapshot comes from a
request in flight with it. At a commit every other request in flight is therefore
raced, and nothing is left to say of it. `LinkInv` says in the same way that a
request alone with a link finds it unused.

*Letters.* `MailInv`: a letter has at most one errand and none once it is logged, an
errand knows whether its letter has arrived (`OneErrand`), an invite not yet
committed is nowhere else (`InvitesWait`), and who is written to as the owner of an
account has one (`ReadersKnown`), so that his row of the log is not refused.

*Providers.* `SocialInv`: the link a callback read is the one it follows, and one it
replaces led nowhere or to a user who stays deleted.

*Rate limit.* `RateInv`: what a process keeps of a client is the end of what it let
through, and what it has forgotten is older than the window (`Keeps`), whether it was
filtered or swept. A request that finds room comes a window after the one the cap
before it, because that one is forgotten.

*Memberships.* `MembersInv` is of that kind too: a request that overlapped none finds
its invite pending (`InviteStillPending`), leaves another administrator
(`OthersAdminister`), and adds a player for the coach who is coach (`CoachStillCoach`). An update that
overlapped none finds the columns it does not write as it read them (`UpdateFits`), so
that role and scope fit. The roster needs no such fact: a redeem takes along every
player in the step in which it sets the coach.

*The trail.* `OrgsInv`: of the entries of a kind the last one tells what is so now.
A commit appends one entry with what it wrote, so it changes the last entry of its
own kind and of no other (`LastPlace`, `TrailGrown`), although what it tells may
come from a read before others committed. An invite is told with the organization
it is sent for, and who has a seat has an account.

*The desk.* `DeskInv`: whoever overlapped nobody is alone (`Alone`), hence the task
is still as it was read and the position still the next one (`ReadHolds`).

*Scopes.* `StructureInv`: branches, teams and managers refer to rows that exist, and
a manager is pinned only to what the role has, if to anything. Each page narrows its query in its
own way, by the branch or by the region of a team; that all of them find the same
teams follows from these references.

*Redirects.* `PagesInv` gives the pages a rank that each redirect lowers (`Rank`)
and keeps that every page of the trail ranks above the present one, so none is
opened twice; the rank exists just because the one open membership, if there is
one only, is that of the cookie.

*The whole.* A step of the host is a step of one part and leaves the variables of
the others alone; so a behaviour of the host is one of each part (`PartsObey`), and
of the signing flow without overlaps where this is the part chosen (`SerialObeys`).
The theorems of the parts then hold of the whole.

*Files.* `VideosInv`: a row registered in good order has at least the size of its
file, and the file goes before that row, so the sum of the sizes of the rows covers the sum of the sizes of the files
left. `UploadsInv`: while the path of a file was chosen by one request alone, disk,
row and description lead to what was sent. `IngestInv`: what a run has noted as
ingested, and what it has added so far, is in the collection, which only grows, in the
version noted unless the document is stale. The
sums are `MapThenSumSet` of the community modules; what is said of them for every
finite set is proved by a least counterexample (`LeastSubset`), since the theorems
of the library on induction take an operator.

*Conversations.* `ChatInv`: a turn that overlapped none is the only one under way, and
every row of the conversation is older than its message. Hence the newest row it reads
is its own, the one row it drops from the window is that one, and the window is the
newest of the rest (`NewestIsOwn`). A turn that saves makes no other unraced.

*Agents.* `AgentInv` gives every turn a number of its own, of which nothing is saved
yet; so what one commit adds is all that is ever saved of the number (`PlayersOfAsk`).
What a tool has shown so far of players, games and schedules is the coach's, because
each tool looks it up anew; the team is, as long as it has not changed hands since a
page was opened (`HandedInv`).

*Research.* `ResearchInv`: an entry of the cache answers what its key asks (`Filled`),
no key is there twice, and storing keeps that, whether it drops the oldest entry,
replaces one or both (`ShelvedInOrder`); a run has read nothing until it extracts.

*Plays and the roadmap.* `PlaybookInv`: an edit under way is of a play its own coach
drew, so a commit that finds the play as it was read leaves what this coach asked for,
and any other notes the overlap. `RoadmapInv` follows one look at the roadmap through its statements: an item that was
done all the while was found, or its statement (`Finds`) is still to come; and where
the play was not found by the second statement, the event that the third reads is
there, since events stay.

*Trials.* `PurgeInv`: whatever is due, for the account or for a request that read it,
was put at the grace after some marking, hence not before the first (`GraceGiven`).

*Calendar.* `PracticeInv`: an event hangs on an earlier one of its own series
(`HangsRight`), so what the database deletes with some rows is of their series; and
a request that found no attendance sheet of its event, and overlapped none, is alone
with it (`MarksAlone`), so a second sheet is the work of an overlap.

*Notebook.* `NotebookInv` with `RosterInv`: rows of players and teams stay, so what a
request has read of them is still there. A line is the only one of its player and
game (`FiledOnce`), hence a player has a line of at most the games his team has.

*Links.* `LibraryInv`: the ids of a link ascend, repeated ones side by side. A list has
one such order: there is one (`OrderExists`) and no other (`OneOrder`), since how often
each id is in it settles it (`SameBag`). So a request finds the link to its clips if it was there when it
looked, and who looked too early is noted as overlapping (`SharingRaced`).

*Reminders.* `PushInv`: the last reminder a coach got was rolled back, or is older than
the cap, or is told by a row of the table or of the log of the run that sent it
(`PushTold`). A run that reminds reads the table and its own log; what escapes it is
in the log of another run.

Each proof that a step keeps an invariant has one lemma or step per action; actions
of another component leave the variables in question unchanged.

Assumptions: those named `...Assumption` in the modules, which TLC evaluates in the
runs, and `FewPreChain` in the one theorem that states it. Beyond types they say
that requests, runs and deliveries are finite where they are counted
(`OtpLimitAssumption`, `CampaignAssumption`, `PracticeAssumption`), that the limit lets a code be requested
at all, that an address is swept no earlier than a window after its last request
(`RateLimitAssumption`), that no address is the mark of a missing link
(`SocialAssumption`), that the roles the code names exist (`OrgMembersAssumption`), that a link
to a video elsewhere is not a file of the bucket (`ScoutingVideosAssumption`), and
that what stands for NULL is no value (`AdminOrgsAssumption`,
`OrgStructureAssumption`, `OrgPagesAssumption`).

### Not proved, checked by TLC only

* Liveness (`SendingFinishes`, `DueReleased`, `PendingDispatched`): the prover does not reach
  properties under fairness.

Every other property of a passing run is stated by a theorem.

## Plan

Done: the signing flow, messages, campaigns and reminders, accounts and tokens, the
components of the organization and of the coach in the three hosts, and the theorems
above. Left: a refinement for the messages, of an abstract sender that hands each
message to each recipient once, up to overlapping releases, in the way of `SigningPromise`.

## Not modelled, and why

* The SMS gateway: its safety checks run only in a base class no provider derives
  from yet; the modules that send have a send that works or fails.
* What language models answer, prompts, wording, PDF and page layout: an answer is
  any of the outcomes the code tells apart.
* Queries without a guard (dashboards of the system administrator, statistics,
  exports, listings): they change nothing. Those of an organization whose scope
  differs by role are in `OrgReach`.
* Columns that only describe (names, notes, photos, colours), profile forms, notes
  and plans attached to a practice, calendar tokens, contacts of a player: written
  and read back with no guard but the one of the page. The history of a chat and its
  search only read.
* CSRF, slugs, security headers: decided from one request alone.
* Seeding scripts, database migrations and the front end. The settings are constants
  of the modules.
