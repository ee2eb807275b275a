------------------------------ MODULE RateLimit ------------------------------
(***************************************************************************)
(* The limit of requests per client and endpoint, a sliding window kept in *)
(* the memory of each process (middleware/rate_limit.py).  A decision has  *)
(* no await between what it reads and what it writes.                      *)
(***************************************************************************)
EXTENDS Naturals, Sequences, FiniteSets, SequencesExt

CONSTANTS
  Process,   \* workers, each with a table of its own
  Client,    \* (client address, path)
  Cap,       \* requests of a window
  Window,    \* _WINDOW_SECONDS
  StaleAfter,\* _STALE_AFTER_SECONDS
  CleanEvery,\* _CLEANUP_INTERVAL
  LastTick   \* bound of the clock

\* An address that is forgotten has nothing left in the window.
ASSUME RateLimitAssumption ==
  /\ Cap \in Nat \ {0} /\ Window \in Nat \ {0} /\ StaleAfter \in Nat /\ StaleAfter >= Window
  /\ LastTick \in Nat

VARIABLES
  second,    \* time.time()
  hits,      \* _state of each process: when requests were let through
  cleaned,   \* _last_cleanup of each process
  passed     \* history: the requests let through, of each process and client

rateVars == <<second, hits, cleaned, passed>>

RateInit ==
  /\ second = 0
  /\ hits = [w \in Process |-> [c \in Client |-> <<>>]]
  /\ cleaned = [w \in Process |-> 0]
  /\ passed = [w \in Process |-> [c \in Client |-> <<>>]]

TickSecond ==
  /\ second < LastTick
  /\ second' = second + 1
  /\ UNCHANGED <<hits, cleaned, passed>>

-----------------------------------------------------------------------------

Due(w) == second - cleaned[w] > CleanEvery

\* Fault: whatever was let through before the last second is stale.
Stale_Soon(times) == times = <<>> \/ second - Last(times) > 0

Stale(times) == times = <<>> \/ second - Last(times) > StaleAfter

\* _cleanup
Swept(w) ==
  IF Due(w) THEN [c \in Client |-> IF Stale(hits[w][c]) THEN <<>> ELSE hits[w][c]]
  ELSE hits[w]

\* Entries outside the sliding window are dropped: the list ascends, so that they
\* are the first ones.
InWindow(times) ==
  LET old == {i \in DOMAIN times : second - times[i] >= Window}
  IN SubSeq(times, Cardinality(old) + 1, Len(times))

\* dispatch: let through, and noted.
LetThrough(w, c) ==
  LET recent == InWindow(Swept(w)[c])
  IN /\ Len(recent) < Cap
     /\ hits' = [hits EXCEPT ![w] = [Swept(w) EXCEPT ![c] = Append(recent, second)]]
     /\ cleaned' = IF Due(w) THEN [cleaned EXCEPT ![w] = second] ELSE cleaned
     /\ passed' = [passed EXCEPT ![w][c] = Append(@, second)]
     /\ UNCHANGED second

\* 429: nothing is noted.
TurnAway(w, c) ==
  /\ Len(InWindow(Swept(w)[c])) >= Cap
  /\ hits' = [hits EXCEPT ![w] = Swept(w)]
  /\ cleaned' = IF Due(w) THEN [cleaned EXCEPT ![w] = second] ELSE cleaned
  /\ UNCHANGED <<second, passed>>

\* The table is lost with the process.
RestartWorker(w) ==
  /\ \E c \in Client : hits[w][c] # <<>>
  /\ hits' = [hits EXCEPT ![w] = [c \in Client |-> <<>>]]
  /\ cleaned' = [cleaned EXCEPT ![w] = 0]
  /\ passed' = [passed EXCEPT ![w] = [c \in Client |-> <<>>]]
  /\ UNCHANGED second

RateNext ==
  \/ TickSecond
  \/ \E w \in Process :
       RestartWorker(w) \/ \E c \in Client : LetThrough(w, c) \/ TurnAway(w, c)

\* The type of the state; the table keeps no more than a window lets through.
RateTypeOK ==
  /\ second \in 0..LastTick
  /\ \A w \in Process, c \in Client : Len(hits[w][c]) <= Cap

\* A process that lives lets no client through more often than the cap within
\* any window, wherever it begins, and whatever it forgets to save memory
\* (RateLimitMiddleware, "sliding-window counter").
WithinCap ==
  \A w \in Process, c \in Client :
    LET p == passed[w][c]
    IN \A n \in DOMAIN p : n > Cap => p[n] - p[n - Cap] >= Window
=============================================================================
