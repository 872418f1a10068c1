---------------------------- MODULE NativeHistory ----------------------------
(* One native history of the Alpaca provider: the embargo, the retry loop of a *)
(* request, the forward pagination by tokens, and what replay_history accepts  *)
(* when the archive of a fetched history is read back.  Event times are        *)
(* minutes; the provider may send any rows and any tokens.                     *)
EXTENDS Integers, Sequences

CONSTANTS Minutes,      \* event times a row may carry
          Prices,       \* what a row may say of its minute
          Tokens,       \* next_page_token values
          NoToken,      \* the null token of a last page
          Windows,      \* the windows <<start, end>> asked for
          RowLimit,     \* page_limit
          MaxReads,     \* max_pages
          Retries,      \* max_retries
          Clocks,       \* the minutes at which a call may be made
          Embargo       \* minutes a bar must be old (15 minutes and 5 seconds)

ASSUME TokenAssumption == NoToken \notin Tokens
ASSUME ReadAssumption == Minutes \subseteq Nat /\ {RowLimit, MaxReads} \subseteq Nat

VARIABLES window,       \* <<start, end>> of the call
          clock,        \* the minute of the call
          tries,        \* retries of the request under way
          backingOff,   \* the provider sleeps before it retries
          archive,      \* the pages read, with the token each was asked by
          candles,      \* rows of the window, in the order read
          previous,     \* the last event time read, or NoMinute
          capability,   \* _state: what health() reports
          result,       \* how the call ended
          replay        \* [of, verdict]: what replay_history said of an archive

nativeVars == <<window, clock, tries, backingOff, archive, candles, previous, capability, result,
                replay>>

NoMinute == -1
WindowEnd == window[2]

Bar == [t : Minutes, v : Prices]
Body == UNION {[rows : [1 .. n -> Bar], token : Tokens \cup {NoToken}] : n \in 0 .. RowLimit}

Waiting == [kind |-> "waiting"]
Fail(code) == [kind |-> "failed", code |-> code]
NotReplayed == [verdict |-> "none"]

(* NativeCandle and the clipping of _history: a row of the window w is kept.   *)
Inside(w, r) == w[1] <= r.t /\ r.t < w[2]

Kept(w, rows) ==
  LET kept[i \in 0 .. Len(rows)] ==
        IF i = 0 THEN <<>>
        ELSE IF Inside(w, rows[i]) THEN Append(kept[i - 1], rows[i]) ELSE kept[i - 1]
  IN kept[Len(rows)]

(* Mutant: the order is checked within a page only.                            *)
UnorderedInPage(rows, last) == \E i \in 1 .. Len(rows) - 1 : rows[i + 1].t <= rows[i].t

(* Event times must ascend strictly, over the pages as well.                   *)
Unordered(rows, last) ==
  \/ rows # <<>> /\ last # NoMinute /\ rows[1].t <= last
  \/ \E i \in 1 .. Len(rows) - 1 : rows[i + 1].t <= rows[i].t

LastTime(rows, last) == IF rows = <<>> THEN last ELSE rows[Len(rows)].t

TokensSeen(pages) == {pages[i].body.token : i \in DOMAIN pages} \ {NoToken}

(* params["page_token"]: a page is asked for by the token of the one before.   *)
AskedBy(pages) == IF pages = <<>> THEN NoToken ELSE pages[Len(pages)].body.token

(***************************************************************************)
(* The fetch: get_candles, _request and _history.                          *)
(***************************************************************************)
NativeInit == /\ window \in Windows
              /\ clock \in Clocks
              /\ tries = 0
              /\ backingOff = FALSE
              /\ archive = <<>>
              /\ candles = <<>>
              /\ previous = NoMinute
              /\ capability = "GATED"
              /\ result = Waiting
              /\ replay = NotReplayed

Embargoed == WindowEnd > clock - Embargo

(* Refused before any request; the provider's state is left as it was.         *)
RefuseEmbargo == /\ result = Waiting
                 /\ Embargoed
                 /\ result' = Fail("HISTORICAL_SIP_EMBARGO")
                 /\ UNCHANGED <<window, clock, tries, backingOff, archive, candles, previous,
                                capability, replay>>

(* The page loop has used all its turns.                                       *)
ReadsUsedUp == Len(archive) >= MaxReads

Reading == result = Waiting /\ ~Embargoed /\ ~backingOff /\ ~ReadsUsedUp

(* A transport error, a 429 or a 5xx, with a delay within the budget: unless   *)
(* the retries are used up, the provider sleeps and sends the request again.   *)
RetryRead == /\ Reading
             /\ tries < Retries
             /\ backingOff' = TRUE
             /\ UNCHANGED <<window, clock, tries, archive, candles, previous, capability, result,
                            replay>>

ReadAgain == /\ backingOff
             /\ backingOff' = FALSE
             /\ tries' = tries + 1
             /\ UNCHANGED <<window, clock, archive, candles, previous, capability, result, replay>>

Raise(code, state) == /\ result' = Fail(code)
                      /\ capability' = state
                      /\ UNCHANGED <<window, clock, backingOff, replay>>

(* Retries used up, or a delay the server demands that exceeds the budget.     *)
RequestExhausted == /\ Reading
                    /\ Raise("REQUEST_FAILED", "DEGRADED")
                    /\ UNCHANGED <<tries, archive, candles, previous>>

RequestRefused == /\ Reading
                  /\ \/ Raise("AUTHENTICATION_OR_ENTITLEMENT", "GATED")
                     \/ Raise("PROVIDER_HTTP", "UNAVAILABLE")
                  /\ UNCHANGED <<tries, archive, candles, previous>>

(* An envelope, a token, a row or the size of the page fails validation.       *)
MalformedPage == /\ Reading
                 /\ Raise("MALFORMED_BAR_PAYLOAD", "UNAVAILABLE")
                 /\ UNCHANGED <<tries, archive, candles, previous>>

NoNewPage(body) == body.rows = <<>> \/ body.token \in TokensSeen(archive)

ReadPage(body) ==
  /\ Reading
  /\ archive' = Append(archive, [asked |-> AskedBy(archive), body |-> body])
  /\ tries' = 0
  /\ UNCHANGED <<window, clock, backingOff, replay>>
  /\ IF Unordered(body.rows, previous)
     THEN /\ result' = Fail("DUPLICATE_OR_UNORDERED_TIMESTAMP")
          /\ capability' = "UNAVAILABLE"
          /\ UNCHANGED <<candles, previous>>
     ELSE /\ candles' = candles \o Kept(window, body.rows)
          /\ previous' = LastTime(body.rows, previous)
          /\ IF body.token = NoToken
             THEN /\ result' = [kind |-> "history"]
                  /\ capability' = "AVAILABLE"
             ELSE IF NoNewPage(body)
             THEN /\ result' = Fail("PAGINATION_NO_PROGRESS")
                  /\ capability' = "UNAVAILABLE"
             ELSE UNCHANGED <<result, capability>>

PageLimitReached == /\ result = Waiting /\ ~Embargoed
                    /\ ReadsUsedUp
                    /\ Raise("PAGINATION_PAGE_LIMIT", "UNAVAILABLE")
                    /\ UNCHANGED <<tries, archive, candles, previous>>

(***************************************************************************)
(* The replay of an archive: replay_history runs _history over the pages.  *)
(***************************************************************************)
LastOf(pages, n) ==
  LET filled == {i \in 1 .. n : pages[i].body.rows # <<>>}
  IN IF filled = {} THEN NoMinute
     ELSE LET i == CHOOSE m \in filled : \A k \in filled : k <= m
          IN LastTime(pages[i].body.rows, NoMinute)

(* The page that _history accepts as its n-th, and goes on after.              *)
Accepts(pages, n) ==
  LET body == pages[n].body
      before == SubSeq(pages, 1, n - 1)
  IN /\ pages[n].asked = AskedBy(before)
     /\ ~Unordered(body.rows, LastOf(pages, n - 1))
     /\ body.token = NoToken \/ (body.rows # <<>> /\ body.token \notin TokensSeen(before))

Flat(w, pages) == LET joined[n \in 0 .. Len(pages)] ==
                        IF n = 0 THEN <<>> ELSE joined[n - 1] \o Kept(w, pages[n].body.rows)
                  IN joined[Len(pages)]

(* Mutant: pages after the last one read are not noticed.                      *)
ReplaysPrefix(w, history) ==
  LET pages == history.pages
      last == {n \in 1 .. Len(pages) : pages[n].body.token = NoToken}
  IN \E n \in last : /\ \A k \in last : n <= k
                     /\ n <= MaxReads
                     /\ \A k \in 1 .. n : Accepts(pages, k)
                     /\ Flat(w, SubSeq(pages, 1, n)) = history.candles

(* replay_history of [pages, candles]: the same pages give the same history.   *)
Replays(w, history) ==
  LET pages == history.pages
      last == {n \in 1 .. Len(pages) : pages[n].body.token = NoToken}
  IN \E n \in last : /\ \A k \in last : n <= k
                     /\ n <= MaxReads
                     /\ \A k \in 1 .. n : Accepts(pages, k)
                     /\ Len(pages) = n
                     /\ Flat(w, pages) = history.candles

Fetched == [pages |-> archive, candles |-> candles]

Without(s, n) == SubSeq(s, 1, n - 1) \o SubSeq(s, n + 1, Len(s))

(* Histories that differ from a fetched one in a page or in a candle.         *)
Altered(fetched) ==
  LET pages == fetched.pages
      bars == fetched.candles
  IN {[fetched EXCEPT !.pages = Without(@, n)] : n \in DOMAIN pages}
     \cup {[fetched EXCEPT !.pages = Append(@, pages[n])] : n \in DOMAIN pages}
     \cup {[fetched EXCEPT !.candles = Without(@, n)] : n \in DOMAIN bars}
     \cup {[fetched EXCEPT !.candles[n].v = v] : n \in DOMAIN bars, v \in Prices}
     \cup (UNION {{[fetched EXCEPT !.pages[n].body.rows[i] = b] :
                     i \in DOMAIN pages[n].body.rows, b \in Bar} : n \in DOMAIN pages})
     \cup {[fetched EXCEPT !.pages[n].body.token = t] :
             n \in DOMAIN pages, t \in Tokens \cup {NoToken}}

ReplayArchive(history) ==
  /\ result.kind = "history"
  /\ replay = NotReplayed
  /\ replay' = [verdict |-> IF Replays(window, history) THEN "accepted" ELSE "refused", of |-> history]
  /\ UNCHANGED <<window, clock, tries, backingOff, archive, candles, previous, capability, result>>

NativeNext == \/ RefuseEmbargo
              \/ RetryRead
              \/ ReadAgain
              \/ RequestExhausted
              \/ RequestRefused
              \/ MalformedPage
              \/ \E body \in Body : ReadPage(body)
              \/ PageLimitReached
              \/ \E history \in {Fetched} \cup Altered(Fetched) : ReplayArchive(history)

NativeSpec == NativeInit /\ [][NativeNext]_nativeVars /\ WF_nativeVars(NativeNext)

(***************************************************************************)
(* Properties.                                                             *)
(***************************************************************************)
BarsOf(pages) ==
  UNION {{pages[n].body.rows[i] : i \in DOMAIN pages[n].body.rows} : n \in DOMAIN pages}

TokensOf(pages) == [n \in DOMAIN pages |-> pages[n].body.token]

NativeAnswer == [kind |-> result.kind, bars |-> IF result.kind = "history" THEN candles ELSE <<>>]

NativeSource == INSTANCE HistorySource
                  WITH window <- window, served <- BarsOf(archive), answer <- NativeAnswer

(* IMPLEMENTS: a native history holds every bar of the window that its pages   *)
(* served, in order and one per minute, whatever was retried and whatever      *)
(* tokens the pages carried (alpaca.py:200-267).                               *)
NativeImplementsSource == NativeSource!SourceSpec

(* REPLAY: the archive of a fetched history is always accepted again, and an   *)
(* archive that is accepted has the pages in the chain of tokens that was      *)
(* fetched and exactly the bars of the window its pages hold: a page dropped   *)
(* or added, a token, a row of the window or a candle changed is refused       *)
(* (alpaca.py:269-284).                                                        *)
ReplayExact ==
  /\ replay.verdict = "refused" => replay.of # Fetched
  /\ replay.verdict = "accepted" =>
       /\ NativeSource!Sound(replay.of.candles, BarsOf(replay.of.pages))
       /\ TokensOf(replay.of.pages) = TokensOf(archive)

(***************************************************************************)
(* What the proofs of these rest on.                                       *)
(***************************************************************************)
ArchivedPage == [asked : Tokens \cup {NoToken}, body : Body]

(* The loop over the pages has not failed, and goes on exactly if no page was  *)
(* the last one.                                                               *)
WellRead ==
  /\ \A n \in DOMAIN archive : Accepts(archive, n)
  /\ candles = Flat(window, archive)
  /\ previous = LastOf(archive, Len(archive))
  /\ \A n \in 1 .. Len(archive) - 1 : archive[n].body.token # NoToken
  /\ result = Waiting => archive = <<>> \/ archive[Len(archive)].body.token # NoToken
  /\ result # Waiting => archive # <<>> /\ archive[Len(archive)].body.token = NoToken

NativeInv ==
  /\ archive \in Seq(ArchivedPage) /\ Len(archive) <= MaxReads
  /\ result \in {Waiting, [kind |-> "history"]} \/ result.kind = "failed"
  /\ result.kind # "failed" => WellRead
  /\ replay # NotReplayed =>
       /\ result.kind = "history"
       /\ replay.of \in {Fetched} \cup Altered(Fetched)
       /\ replay.verdict = IF Replays(window, replay.of) THEN "accepted" ELSE "refused"
==============================================================================
