----------------------------- MODULE MarketData -----------------------------
(***************************************************************************)
(* What the service shows of companies: the sources (providers/finance),   *)
(* and the rows of company pages with their caches (api/companies.py).     *)
(*                                                                         *)
(* A source is what its adapter makes of each kind of reply.  Which of     *)
(* several sources is asked, and how often, is ProviderFailover's matter:  *)
(* here any source may be the one that ends a call, as those before it may *)
(* always refuse.                                                          *)
(***************************************************************************)
EXTENDS Settings, Sequences, SequencesExt, FiniteSets

CONSTANTS
  Domestic,   \* companies of the Chinese market
  Foreign,    \* and of the others
  Rows,       \* bound: rows of company pages at once
  CacheMax    \* _ENRICH_CACHE_MAX

VARIABLES
  studies,   \* the companies that research tasks are about
  row,       \* row[p]: a row under way, or shown
  cache,     \* _enrich_cache, the least recently used first
  finances,  \* _financials_cache, likewise
  used       \* the companies, by when either cache last gave or got them (history)

vars == <<studies, row, cache, finances, used>>

Companies == Domestic \cup Foreign

-----------------------------------------------------------------------------
(* Sources *)

\* What may come back from a library or a site: it hangs, fails, has nothing,
\* something of another shape, something that is no number, or a value.
Replies == {"hangs", "fails", "nothing", "odd", "nan", "value"}

\* What an adapter makes of it: a provider's error, which the registry takes as
\* a refusal, any other error, which it does not, or an answer.
Refused == {[is |-> "refused"]}
Raised  == {[is |-> "raised"]}
Profiles(currencies) == {[is |-> "answer", currency |-> c] : c \in currencies}
\* A quote's price is in a currency, and labelled with one.
Quotes(currencies, labels) ==
  [is : {"answer"}, currency : currencies, label : labels]
Numbers == {[is |-> "answer", numbers |-> TRUE]}
Nothing == {[is |-> "answer", numbers |-> FALSE]}

\* BaseProvider._call(): what hangs or fails is refused; the rest is parsed,
\* inside _guard_parse() or not.
Adapter(nothing, odd, nan, value) ==
  [r \in Replies |-> CASE r \in {"hangs", "fails"} -> Refused
                       [] r = "nothing" -> nothing [] r = "odd" -> odd
                       [] r = "nan" -> nan [] r = "value" -> value]

Unavailable == [r \in Replies |-> Refused]

CNY == {"CNY"}

Efinance == [
  quote           |-> Adapter(Refused, Refused, Refused, Quotes(CNY, CNY)),
  financials      |-> Adapter(Refused, Raised, Nothing, Numbers),
  company_profile |-> Adapter(Refused, Raised, Profiles(CNY), Profiles(CNY))]

\* _period_filter() leaves nothing of a frame without the period.
Akshare == [
  quote           |-> Adapter(Refused, Refused, Refused, Quotes(CNY, CNY)),
  financials      |-> Adapter(Nothing, Raised, Nothing, Nothing \cup Numbers),
  company_profile |-> Adapter(Profiles(CNY), Raised, Profiles(CNY), Profiles(CNY))]

Tencent == [
  quote           |-> Adapter(Refused, Refused, Refused, Quotes(CNY, CNY)),
  company_profile |-> Adapter(Profiles(CNY), Refused, Profiles(CNY), Profiles(CNY))]

Sina == [
  quote           |-> Adapter(Refused, Refused, Refused, Quotes(CNY, CNY)),
  company_profile |-> Adapter(Profiles(CNY), Refused, Profiles(CNY), Profiles(CNY))]

Pytdx == [
  quote           |-> Adapter(Refused, Raised, Refused, Quotes(CNY, CNY)),
  financials      |-> Adapter(Refused, Raised, Nothing, Numbers),
  company_profile |-> Adapter(Refused, Raised, Profiles(CNY), Profiles(CNY))]

\* _parse_period() knows no "FY", the one period that is asked for.
Baostock == [
  quote           |-> Adapter(Refused, Refused, Refused, Quotes(CNY, CNY)),
  financials      |-> Unavailable,
  company_profile |-> Adapter(Refused, Refused, Profiles(CNY), Profiles(CNY))]

\* A NaN passes _to_decimal() and is turned down by the Quote.
Ashare == [quote |-> Adapter(Refused, Refused, Raised, Quotes(CNY, CNY))]

\* build_registry() gives it no token.
Tushare == [quote |-> Unavailable, financials |-> Unavailable, company_profile |-> Unavailable]

\* A price of no stated currency is labelled as one in dollars.
Labelled == {q \in Quotes({"USD", "HKD"}, {"USD", "HKD"}) : q.label \in {q.currency, "USD"}}

\* The library is imported, and the currency fetched, outside of _call().
Yfinance == [
  quote           |-> Adapter(Refused, Raised, Refused, Labelled \cup Raised),
  financials      |-> Adapter(Nothing, Raised, Nothing, Nothing \cup Raised),
  company_profile |-> Adapter(Profiles({None}), Raised, Profiles({"USD", "HKD"}), Profiles({"USD", "HKD"}))]

\* build_registry()
Registry(company) ==
  IF company \in Domestic
  THEN {Efinance, Akshare, Tencent, Sina, Pytdx, Baostock, Ashare, Tushare}
  ELSE {Yfinance}

\* What a call of all the sources may end with: None if it raises, when all have
\* refused or one fails otherwise, or if the caller's time is over.
Results(operation, company) ==
  {None} \cup
  {out \in UNION {s[operation][r] :
                    s \in {s \in Registry(company) : operation \in DOMAIN s}, r \in Replies} :
     out.is = "answer"}

-----------------------------------------------------------------------------
(* Company pages *)

Idle == [at |-> "idle"]

Init ==
  /\ studies   = {}
  /\ row       = [p \in Rows |-> Idle]
  /\ cache     = <<>>
  /\ finances  = <<>>
  /\ used      = [enriched |-> <<>>, financials |-> <<>>]

Cached(entries, c) == {i \in 1..Len(entries) : entries[i].company = c}
Place(entries, c)  == CHOOSE i \in Cached(entries, c) : TRUE

\* A company has one entry at most.
Without(entries, c) ==
  IF Cached(entries, c) = {} THEN entries ELSE RemoveAt(entries, Place(entries, c))

Latest(entries, c, e) == Append(Without(entries, c), e)

\* Mutant: an entry that is used stays where it is.
KeepPlace(entries, c, e) ==
  LET all == IF Cached(entries, c) = {} THEN Append(entries, e)
             ELSE [i \in 1..Len(entries) |-> IF entries[i].company = c THEN e ELSE entries[i]]
  IN  IF Len(all) > CacheMax THEN Tail(all) ELSE all

\* An entry is used or written: it is the newest, and the oldest goes.
Touch(entries, c, e) ==
  LET all == Latest(entries, c, e)
  IN  IF Len(all) > CacheMax THEN Tail(all) ELSE all

Use(which, c) == used' = [used EXCEPT ![which] = Latest(@, c, [company |-> c])]

\* A research task about c.
Research(c) ==
  /\ studies' = studies \cup {c}
  /\ UNCHANGED <<row, cache, finances, used>>

\* _aggregate(), without what it counts.
Entry(c) == [company |-> c, currency |-> None, price |-> None]

\* list(), get(), _enrich(): a row is begun, and shown at once if it is cached.
Open(p) ==
  /\ row[p].at \in {"idle", "shown"}
  /\ \E c \in studies :
       IF Cached(cache, c) = {}
       THEN /\ row' = [row EXCEPT ![p] = [at |-> "profile", entry |-> Entry(c)]]
            /\ UNCHANGED <<cache, used>>
       ELSE LET e == cache[Place(cache, c)]
            IN  /\ row'   = [row EXCEPT ![p] = [at |-> "shown", entry |-> e]]
                /\ cache' = Touch(cache, c, e)
                /\ Use("enriched", c)
  /\ UNCHANGED <<studies, finances>>

Described(e, out) == IF out = None THEN e ELSE [e EXCEPT !.currency = out.currency]

\* _enrich_uncached(): the profile, then the quote; what fails is left out.
ReadProfile(p) ==
  /\ row[p].at = "profile"
  /\ \E out \in Results("company_profile", row[p].entry.company) :
       row' = [row EXCEPT ![p] = [at |-> "quote", entry |-> Described(row[p].entry, out)]]
  /\ UNCHANGED <<studies, cache, finances, used>>

\* A price is shown by what it is in; the row's currency becomes its label.
Priced(e, out) ==
  IF out = None THEN e ELSE [e EXCEPT !.price = out.currency, !.currency = out.label]

\* The entry is cached, whether or not a source answered.
ReadQuote(p) ==
  /\ row[p].at = "quote"
  /\ LET c == row[p].entry.company
     IN  \E out \in Results("quote", c) :
           LET e == Priced(row[p].entry, out)
           IN  /\ row'   = [row EXCEPT ![p] = [at |-> "shown", entry |-> e]]
               /\ cache' = Touch(cache, c, e)
               /\ Use("enriched", c)
  /\ UNCHANGED <<studies, finances>>

\* get(): with the numbers of the cache, or of a call, which are kept if it
\* answered.
ReadFinancials(p) ==
  /\ row[p].at = "shown"
  /\ row' = [row EXCEPT ![p] = Idle]
  /\ LET c == row[p].entry.company
     IN  \/ Cached(finances, c) = {} /\ UNCHANGED <<finances, used>>
         \/ /\ Cached(finances, c) # {} \/ Results("financials", c) # {None}
            /\ finances' = Touch(finances, c, [company |-> c])
            /\ Use("financials", c)
  /\ UNCHANGED <<studies, cache>>

Next ==
  \/ \E c \in Companies : Research(c)
  \/ \E p \in Rows : Open(p) \/ ReadProfile(p) \/ ReadQuote(p) \/ ReadFinancials(p)

Spec == Init /\ [][Next]_vars

-----------------------------------------------------------------------------
(* Properties *)

\* The entries are of the last companies of the order, in that order.
KeepsLatest(entries, order) ==
  LET dropped == Len(order) - Len(entries)
  IN  /\ Len(entries) = IF Len(order) < CacheMax THEN Len(order) ELSE CacheMax
      /\ \A i \in 1..Len(entries) : entries[i].company = order[dropped + i].company

\* However rows overlap, a cache has each company once, never more than it may,
\* and when it has dropped one it has kept those that were used after it
\* (_enrich, get).
CacheKeepsTheLatest ==
  KeepsLatest(cache, used.enriched) /\ KeepsLatest(finances, used.financials)
=============================================================================
