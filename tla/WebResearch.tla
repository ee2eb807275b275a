----------------------------- MODULE WebResearch -----------------------------
(***************************************************************************)
(* The research of an agent on the web (src/research/): a pipeline of a    *)
(* plan, a search, a triage, fetched pages, findings extracted page by     *)
(* page and a report, behind a cache in the memory of the process.         *)
(*                                                                         *)
(* Every stage asks the language model or the network and waits.  A stage  *)
(* that fails ends the run with a note to the agent, and notes are cached  *)
(* like reports.  An entry is filed under the hour in which the run ended. *)
(***************************************************************************)
EXTENDS Naturals, Sequences, FiniteSets

CONSTANTS
  Seeker,     \* runs that may be under way
  Tenant,     \* pairs of a coach and a team
  Question,   \* queries with their hints, as normalized for the key
  Webpage,    \* pages the search may find
  Trusted,    \* those of a TIER_1 domain
  Shunned,    \* those of a blacklisted domain
  MaxFetch,   \* MAX_URLS_TO_FETCH
  CacheMax,   \* _CACHE_MAX
  LastHour    \* bound: hours that pass

ASSUME WebResearchAssumption ==
  /\ Trusted \subseteq Webpage /\ Shunned \subseteq Webpage \ Trusted
  /\ MaxFetch \in Nat \ {0} /\ CacheMax \in Nat \ {0} /\ LastHour \in Nat

VARIABLES
  shelf,      \* _RESULT_CACHE, in the order of insertion
  clock,      \* current_hour_bucket
  seeks       \* the runs

researchVars == <<shelf, clock, seeks>>

Unasked == [step |-> "unasked"]

ResearchInit ==
  /\ shelf = <<>>
  /\ clock = 0
  /\ seeks = [s \in Seeker |-> Unasked]

-----------------------------------------------------------------------------
(* The cache *)

\* Fault: the key of the first version, without the coach and the team.
KeyOf_Shared(tenant, q, hour) == [of |-> q, hour |-> hour]

\* _build_key
KeyOf(tenant, q, hour) == [tenant |-> tenant, of |-> q, hour |-> hour]

Filed(key) == {i \in DOMAIN shelf : shelf[i].key = key}

\* store: at the limit the oldest entry goes, also when the key is there already.
Shelved(entry) ==
  LET kept == IF Len(shelf) >= CacheMax THEN Tail(shelf) ELSE shelf
      same == {i \in DOMAIN kept : kept[i].key = entry.key}
  IN IF same = {} THEN Append(kept, entry)
     ELSE [i \in DOMAIN kept |-> IF i \in same THEN entry ELSE kept[i]]

-----------------------------------------------------------------------------
(* The pages *)

\* url_tier, with the rank an unlisted page, and a blacklisted one, is sorted by.
Tier(u) == CASE u \in Trusted -> 1 [] u \in Shunned -> 9 [] OTHER -> 4

\* rank_urls: the best of what was found, never a blacklisted page.
Ranked(found) ==
  {best \in SUBSET (found \ Shunned) :
     /\ Cardinality(best) = (IF Cardinality(found \ Shunned) < MaxFetch
                             THEN Cardinality(found \ Shunned) ELSE MaxFetch)
     /\ \A u \in best, v \in (found \ Shunned) \ best : Tier(u) <= Tier(v)}

\* The pages that may be read next: of the strongest tier.
Strongest(pages) == {u \in pages : \A v \in pages : Tier(u) <= Tier(v)}

\* The early exit: a rich first page, or enough players from two.
Enough(read, players) ==
  (Cardinality(read) = 1 /\ players >= 8) \/ (Cardinality(read) >= 2 /\ players >= 5)

-----------------------------------------------------------------------------
(* A run *)

Move(s, step) == seeks' = [seeks EXCEPT ![s].step = step]

\* What was found so far is of no use to the note.
Drop(s) ==
  seeks' = [seeks EXCEPT ![s].step = "note", ![s].pages = {}, ![s].read = {}, ![s].players = 0]

\* research: what this tenant found this hour is given at once.
Ask(s, tenant, q, hinted) ==
  LET hits == Filed(KeyOf(tenant, q, clock))
      run == [step |-> "plan", tenant |-> tenant, of |-> q, at |-> clock,
              pages |-> {}, read |-> {}, players |-> 0]
  IN /\ seeks[s] = Unasked
     /\ seeks' = [seeks EXCEPT ![s] =
          IF hits # {} THEN [step |-> "answered", tenant |-> tenant, of |-> q, at |-> clock, hit |-> TRUE,
                             answer |-> shelf[CHOOSE i \in hits : TRUE].answer]
          ELSE [run EXCEPT !.step = IF hinted THEN "hint" ELSE "plan"]]
     /\ UNCHANGED <<shelf, clock>>

\* Stage 0: the page of the hint is the answer, if one of four ways to fetch
\* it gives readable text.
FetchHint(s, readable) ==
  /\ seeks[s].step = "hint"
  /\ Move(s, IF readable THEN "page" ELSE "plan")
  /\ UNCHANGED <<shelf, clock>>

\* Stage 1: no queries, no answer.
Plan(s) ==
  /\ seeks[s].step = "plan"
  /\ Move(s, "search")
  /\ UNCHANGED <<shelf, clock>>

\* Stage 2: what Serper finds with all queries together.
Search(s, found) ==
  /\ seeks[s].step = "search"
  /\ IF found = {} THEN Drop(s)
     ELSE seeks' = [seeks EXCEPT ![s].step = "triage", ![s].pages = found]
  /\ UNCHANGED <<shelf, clock>>

\* Stage 3: the model may name any page; if it names none, the ranking picks.
Triage(s, picked) ==
  /\ seeks[s].step = "triage"
  /\ \/ picked # {} /\ Cardinality(picked) <= MaxFetch
     \/ picked \in Ranked(seeks[s].pages)
  /\ IF picked = {} THEN Drop(s)
     ELSE seeks' = [seeks EXCEPT ![s].step = "fetch", ![s].pages = picked]
  /\ UNCHANGED <<shelf, clock>>

\* Stage 4: at once; those that fail, are blocked or thin fall away.
FetchPages(s, usable) ==
  /\ seeks[s].step = "fetch" /\ usable \subseteq seeks[s].pages
  /\ IF usable = {} THEN Drop(s)
     ELSE seeks' = [seeks EXCEPT ![s].step = "extract", ![s].pages = usable]
  /\ UNCHANGED <<shelf, clock>>

\* Stage 5: one page after the other, the strongest first; a page the model
\* does not answer for has no findings.
Extract(s, u, players) ==
  /\ seeks[s].step = "extract" /\ u \in Strongest(seeks[s].pages \ seeks[s].read)
  /\ LET read == seeks[s].read \cup {u}
         sum == seeks[s].players + players
     IN seeks' = [seeks EXCEPT ![s].read = read, ![s].players = sum,
          ![s].step = IF Enough(read, sum) \/ read = seeks[s].pages THEN "report" ELSE "extract"]
  /\ UNCHANGED <<shelf, clock>>

\* The pipeline raises: the run ends with a note.
PipelineFails(s) ==
  /\ seeks[s].step \in {"hint", "plan", "search", "triage", "fetch", "extract", "report"}
  /\ Drop(s)
  /\ UNCHANGED <<shelf, clock>>

\* Stages 6 and 7, or the pages themselves when nothing was found in them; the
\* answer is filed, whatever it is.
Conclude(s) ==
  /\ seeks[s].step \in {"page", "note", "report"}
  /\ LET r == seeks[s]
         answer == [tenant |-> r.tenant, of |-> r.of, filed |-> clock, kind |-> r.step]
     IN /\ shelf' = Shelved([key |-> KeyOf(r.tenant, r.of, clock), answer |-> answer])
        /\ seeks' = [seeks EXCEPT ![s] =
             [step |-> "answered", tenant |-> r.tenant, of |-> r.of, at |-> clock, hit |-> FALSE,
              answer |-> answer]]
  /\ UNCHANGED clock

\* The tool returns.
TakeAnswer(s) ==
  /\ seeks[s].step = "answered"
  /\ seeks' = [seeks EXCEPT ![s] = Unasked]
  /\ UNCHANGED <<shelf, clock>>

HourPasses ==
  /\ clock < LastHour
  /\ clock' = clock + 1
  /\ UNCHANGED <<shelf, seeks>>

\* The process stops.
RestartResearch ==
  /\ shelf # <<>>
  /\ shelf' = <<>>
  /\ seeks' = [s \in Seeker |-> Unasked]
  /\ UNCHANGED clock

-----------------------------------------------------------------------------

ResearchNext ==
  \/ \E s \in Seeker :
       \/ \E tenant \in Tenant, q \in Question, hinted \in BOOLEAN : Ask(s, tenant, q, hinted)
       \/ \E readable \in BOOLEAN : FetchHint(s, readable)
       \/ \E pages \in SUBSET Webpage :
            Search(s, pages) \/ Triage(s, pages) \/ FetchPages(s, pages)
       \/ Plan(s)
       \/ \E u \in Webpage, players \in {0, 3, 8} : Extract(s, u, players)
       \/ PipelineFails(s) \/ Conclude(s) \/ TakeAnswer(s)
  \/ HourPasses
  \/ RestartResearch

-----------------------------------------------------------------------------
(* Properties *)

Answers == [tenant : Tenant, of : Question, filed : 0..LastHour, kind : {"page", "note", "report"}]

\* The type of the state.
ResearchTypeOK ==
  /\ \A i \in DOMAIN shelf :
       shelf[i] \in [key : [tenant : Tenant, of : Question, hour : 0..LastHour], answer : Answers]
  /\ clock \in 0..LastHour
  /\ seeks \in [Seeker -> {Unasked} \cup
       [step : {"hint", "plan", "search", "page", "triage", "fetch", "extract", "report", "note"},
        tenant : Tenant, of : Question, at : 0..LastHour,
        pages : SUBSET Webpage, read : SUBSET Webpage, players : Nat] \cup
       [step : {"answered"}, tenant : Tenant, of : Question, at : 0..LastHour, hit : BOOLEAN,
        answer : Answers]]

\* What a run answers was found for the same coach, team and question, and a
\* cached answer in the hour it was asked in (cache.py, "two different coaches
\* always get separate cache entries"); no key is filed twice, and no more than
\* the limit.  A page is left unread, or not yet read, only when no weaker one
\* has been.
AnswersAreOwn ==
  /\ \A s \in Seeker : seeks[s].step = "answered" =>
       /\ seeks[s].answer.tenant = seeks[s].tenant /\ seeks[s].answer.of = seeks[s].of
       /\ seeks[s].hit => seeks[s].answer.filed = seeks[s].at
  /\ \A i, j \in DOMAIN shelf : shelf[i].key = shelf[j].key => i = j
  /\ Len(shelf) <= CacheMax
  /\ \A s \in Seeker : seeks[s].step \in {"extract", "report"} =>
       \A u \in seeks[s].read, v \in seeks[s].pages \ seeks[s].read : Tier(u) <= Tier(v)
=============================================================================
