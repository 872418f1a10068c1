---------------------------- MODULE BitgetHistory ----------------------------
(* One bounded history of the Bitget client: the retry loop of a request, the  *)
(* backward pagination of fetch_bounded_history, the removal of bars two pages *)
(* share, and the quality report that says whether the result may be used.     *)
(* Event times are numbers of intervals; the provider may send any rows.       *)
EXTENDS Integers, Sequences, FiniteSets

CONSTANTS Times,        \* event times a row may carry
          Payloads,     \* what a row may say of its time
          BadPayloads,  \* the payloads that fail a check of prices or volumes
          Start, End,   \* the requested window [Start, End)
          PageLimit,    \* rows asked for, and at most sent, in a page
          MaxPages,     \* max_pages
          MaxRetries,   \* max_retries of the client
          Assessments,  \* answers of the source session provider, per expected time
          Worlds        \* the sets of times the market may have a bar for

ASSUME WindowAssumption == Start \in Int /\ End \in Int /\ Start < End
ASSUME TimesAssumption == Times \subseteq Int /\ \A w \in Worlds : w \subseteq Start .. End - 1
ASSUME BoundsAssumption == PageLimit \in Nat \ {0} /\ MaxPages \in Nat \ {0} /\ MaxRetries \in Nat

VARIABLES sessions,     \* availability of the source at each expected time
          world,        \* ghost: the times of the window the market has a bar for
          honest,       \* ghost: every page so far was the newest part of the world
          attempt,      \* retries of the request under way
          pausing,      \* the client sleeps before it retries
          pages,        \* pages_newest_first
          cursor,       \* cursor_end
          outcome       \* how the call ended

bitgetVars == <<sessions, world, honest, attempt, pausing, pages, cursor, outcome>>

Row == [t : Times, v : Payloads]
Page == UNION {[1 .. n -> Row] : n \in 0 .. PageLimit}
Expected == Start .. End - 1
Pending == [kind |-> "pending"]

OldestOf(page) == CHOOSE t \in {page[i].t : i \in DOMAIN page} :
                    \A i \in DOMAIN page : t <= page[i].t

(***************************************************************************)
(* Provider order: the rows of all pages, the oldest page first.           *)
(***************************************************************************)
(* A place is <<n, i>>: the i-th row of the n-th newest page.              *)
Places(ps) == UNION {{<<n, i>> : i \in DOMAIN ps[n]} : n \in DOMAIN ps}

RowAt(ps, a) == ps[a[1]][a[2]]

Before(a, b) == a[1] > b[1] \/ (a[1] = b[1] /\ a[2] < b[2])

(* The places of K whose row is the first of its time.                     *)
Firsts(ps, K) == {a \in K : \A b \in K : RowAt(ps, b).t = RowAt(ps, a).t => ~Before(b, a)}

(* Mutant: a page wins over what a later one says of the same time.        *)
SameTimeAsEarlierPage(ps, a) ==
  \E f \in Firsts(ps, Places(ps)) : f[1] # a[1] /\ RowAt(ps, f).t = RowAt(ps, a).t

(* A row that repeats, word for word, the first row another page sent for  *)
(* its time is an overlap; a repetition inside a page or with other words  *)
(* is not.                                                                 *)
SameAsEarlierPage(ps, a) ==
  \E f \in Firsts(ps, Places(ps)) : f[1] # a[1] /\ RowAt(ps, f) = RowAt(ps, a)

ProviderOrder(ps) == {a \in Places(ps) : ~SameAsEarlierPage(ps, a)}

(***************************************************************************)
(* Quality: which of the rows are kept, and what is wrong with them.       *)
(***************************************************************************)
InOrder(keep) == CHOOSE s \in [1 .. Cardinality(keep) -> keep] :
                   /\ \A i, j \in DOMAIN s : i < j => s[i].t < s[j].t
                   /\ \A r \in keep : \E i \in DOMAIN s : s[i] = r

(* evaluate_candle_quality of the rows at the places K: the first row of a     *)
(* time counts.  The spacing issue is raised only beside a missing bar and so  *)
(* never changes the status.                                                   *)
Quality(ps, K, paginationErrors) ==
  LET unique   == {RowAt(ps, a) : a \in Firsts(ps, K)}
      accepted == {r \in unique : Start <= r.t /\ r.t < End}
      absent(state) == {t \in Expected : sessions[t] = state} \ {r.t : r \in accepted}
      Raise(code, when) == IF when THEN {code} ELSE {}
      errors   == Raise("DUPLICATE_TIMESTAMP", K # Firsts(ps, K))
                  \cup Raise("OUT_OF_ORDER_TIMESTAMP",
                             \E a, b \in K : Before(a, b) /\ RowAt(ps, b).t < RowAt(ps, a).t)
                  \cup Raise("TIMESTAMP_OUTSIDE_RANGE", \E r \in unique : r.t >= End)
                  \cup Raise("INVALID_VALUES", \E r \in accepted : r.v \in BadPayloads)
                  \cup Raise("EMPTY_RESULT", accepted = {})
                  \cup paginationErrors
      warnings == Raise("PROVIDER_BOUNDARY_SPILLOVER", \E r \in unique : r.t < Start)
                  \cup Raise("MISSING_WHILE_EXPECTED_OPEN", absent("open") # {})
                  \cup Raise("SOURCE_SESSION_UNKNOWN", absent("unknown") # {})
                  \cup Raise("OVERLAPPING_PAGE_DUPLICATE", K # Places(ps))
  IN [accepted |-> InOrder(accepted),
      errors   |-> errors,
      status   |-> IF errors # {} THEN "FAIL" ELSE IF warnings # {} THEN "WARN" ELSE "PASS"]

History(ps) == [kind |-> "history", quality |-> Quality(ps, ProviderOrder(ps), {})]

(* _pagination_failure: the report counts every row received, overlaps too.    *)
PaginationFailure(ps, code) ==
  [kind |-> "pagination_error", code |-> code, quality |-> Quality(ps, Places(ps), {code})]

(***************************************************************************)
(* The call.                                                               *)
(***************************************************************************)
BitgetInit == /\ sessions \in Assessments
              /\ world \in Worlds
              /\ honest = TRUE
              /\ attempt = 0
              /\ pausing = FALSE
              /\ pages = <<>>
              /\ cursor = End
              /\ outcome = Pending

(* The check at the head of the page loop.                                     *)
PagesUsedUp == Len(pages) >= MaxPages

Asking == outcome = Pending /\ ~pausing /\ ~PagesUsedUp

(* Transport errors, 429, 5xx and the provider's rate-limit codes: unless the  *)
(* retries are used up, the client sleeps and sends the request again.         *)
RetryRequest == /\ Asking
                /\ attempt < MaxRetries
                /\ pausing' = TRUE
                /\ UNCHANGED <<sessions, world, honest, attempt, pages, cursor, outcome>>

(* Mutant: a retry is not counted as an attempt.                               *)
SendAgainUncounted == /\ pausing
                      /\ pausing' = FALSE
                      /\ UNCHANGED <<sessions, world, honest, attempt, pages, cursor, outcome>>

SendAgain == /\ pausing
             /\ pausing' = FALSE
             /\ attempt' = attempt + 1
             /\ UNCHANGED <<sessions, world, honest, pages, cursor, outcome>>

(* The last retry failed, or the reply is one that is never retried: the call  *)
(* raises, and the pages already read go with it.                              *)
RequestFails == /\ Asking
                /\ outcome' = [kind |-> "provider_error"]
                /\ UNCHANGED <<sessions, world, honest, attempt, pausing, pages, cursor>>

(* What a correct provider sends: in order, the newest of the market before    *)
(* the bound, and all of it if it fits the page.                               *)
HonestReply(page, bound) ==
  LET sent == {page[i].t : i \in DOMAIN page}
  IN /\ \A i, j \in DOMAIN page : i < j => page[i].t < page[j].t
     /\ sent \subseteq {t \in world : t < bound}
     /\ \A t \in world : t < bound /\ t \notin sent =>
          Len(page) = PageLimit /\ \A u \in sent : t < u

ReachedStart(page) == OldestOf(page) <= Start

(* Mutant: a full page is taken for a short one.                               *)
LastPageFull(page) == page = <<>> \/ ReachedStart(page) \/ Len(page) <= PageLimit

LastPage(page) == page = <<>> \/ ReachedStart(page) \/ Len(page) < PageLimit

NoProgress(page) == page # <<>> /\ OldestOf(page) >= cursor

(* A page arrives: it ends the history, ends it with an error, or moves the    *)
(* cursor to its oldest row.                                                   *)
ReceivePage(page) ==
  /\ Asking
  /\ pages' = Append(pages, page)
  /\ honest' = (honest /\ HonestReply(page, cursor))
  /\ attempt' = 0
  /\ outcome' = IF NoProgress(page) THEN PaginationFailure(pages', "PAGINATION_NO_PROGRESS")
                ELSE IF LastPage(page) THEN History(pages')
                ELSE Pending
  /\ cursor' = IF outcome'.kind = "pending" THEN OldestOf(page) ELSE cursor
  /\ UNCHANGED <<sessions, world, pausing>>

MaxPagesExceeded == /\ outcome = Pending
                    /\ PagesUsedUp
                    /\ outcome' = PaginationFailure(pages, "MAX_PAGES_EXCEEDED")
                    /\ UNCHANGED <<sessions, world, honest, attempt, pausing, pages, cursor>>

BitgetNext == \/ RetryRequest
              \/ SendAgain
              \/ RequestFails
              \/ \E page \in Page : ReceivePage(page)
              \/ MaxPagesExceeded

BitgetSpec == BitgetInit /\ [][BitgetNext]_bitgetVars /\ WF_bitgetVars(BitgetNext)

(***************************************************************************)
(* Properties.                                                             *)
(***************************************************************************)
BitgetServed == {RowAt(pages, a) : a \in Places(pages)}

(* What the callers take for an answer: coverage and the dataset use a result  *)
(* only when its quality did not fail.                                         *)
BitgetAnswer ==
  IF outcome = Pending THEN [kind |-> "waiting", bars |-> <<>>]
  ELSE IF outcome.kind = "history" /\ outcome.quality.status # "FAIL"
       THEN [kind |-> "history", bars |-> outcome.quality.accepted]
       ELSE [kind |-> "failed", bars |-> <<>>]

BitgetSource == INSTANCE HistorySource
                  WITH window <- <<Start, End>>, served <- BitgetServed, answer <- BitgetAnswer

(* IMPLEMENTS: a result whose quality did not fail holds every row of the      *)
(* window that any page served, in order and one per time; pages that overlap, *)
(* disagree, run backwards or leak past the end never give another answer      *)
(* (history.py:146-177, quality.py:85-110).                                    *)
BitgetImplementsSource == BitgetSource!SourceSpec

(* COMPLETE: when every page was the newest part of what the market has before *)
(* the cursor, the backward pagination misses nothing and repeats nothing: the *)
(* result has a bar for exactly the times of the market, and the only          *)
(* pagination error is the page limit (history.py:125-144).                    *)
HonestFetchComplete ==
  honest => /\ outcome.kind = "history" =>
                 {outcome.quality.accepted[i].t : i \in DOMAIN outcome.quality.accepted} = world
            /\ outcome.kind = "pagination_error" => outcome.code = "MAX_PAGES_EXCEEDED"

(***************************************************************************)
(* What the proofs of these rest on.                                       *)
(***************************************************************************)
TimesRead == {RowAt(pages, a).t : a \in Places(pages)}

(* A correct provider has sent what the market has at or after the cursor.     *)
HonestSoFar ==
  /\ outcome = Pending => TimesRead = {t \in world : cursor <= t}
  /\ outcome.kind = "history" => TimesRead = world
  /\ outcome.kind = "pagination_error" => outcome.code = "MAX_PAGES_EXCEEDED"

BitgetInv ==
  /\ pages \in Seq(Page)
  /\ world \in Worlds /\ cursor \in Int /\ cursor <= End
  /\ outcome.kind \in {"pending", "provider_error", "history", "pagination_error"}
  /\ outcome.kind = "pending" => outcome = Pending
  /\ outcome.kind = "history" => outcome = History(pages)
  /\ honest => HonestSoFar
==============================================================================
