-------------------------- MODULE FinancialMetrics --------------------------
(***************************************************************************)
(* Figures of companies as the providers give them: whether two of them    *)
(* contradict each other (finsage/providers/finance/conflict.py, with the  *)
(* names normalize.py knows), and what can be computed from them           *)
(* (workflows/nodes.py, financial/engine.py, financial/valuation.py).      *)
(*                                                                         *)
(* Names are given as their keys, without case, blanks, punctuation and    *)
(* currency signs, and not in Chinese; "" is a name that is missing.  A    *)
(* period is the rank of its text.  The assumptions of a discounted cash   *)
(* flow are not configured (settings.py).                                  *)
(***************************************************************************)
EXTENDS Integers, Sequences, SequencesExt, FiniteSets

\* FinancialMetric (domain.py).
Readings == [company : STRING, ticker : STRING, market : STRING,
             metric : STRING, currency : STRING, unit : STRING,
             source : STRING, period : Nat, value : Int]

-----------------------------------------------------------------------------
(* Normalisation (normalize.py): the aliases of each kind of name          *)

MarketAliases ==
  [CHINA |-> "CN", A |-> "CN", CN_SH |-> "CN.SH", SH |-> "CN.SH",
   SSE |-> "CN.SH", CNSH |-> "CN.SH", CN_SZ |-> "CN.SZ", SZ |-> "CN.SZ",
   SZSE |-> "CN.SZ", CNSZ |-> "CN.SZ", UNITED_STATES |-> "US", NYSE |-> "US",
   NASDAQ |-> "US", HKEX |-> "HK", HONG_KONG |-> "HK"]

MetricAliases ==
  [total_revenue |-> "revenue", operating_revenue |-> "revenue",
   diluted_eps |-> "eps"]

CurrencyAliases == [RMB |-> "CNY", RENMINBI |-> "CNY", HK |-> "HKD",
                    USDHKD |-> "HKD"]

UnitAliases ==
  [yuan |-> "CNY", cny |-> "CNY", rmb |-> "CNY", usd |-> "USD",
   dollar |-> "USD", hkd |-> "HKD", wan |-> "CNY_wan", yi |-> "CNY_yi",
   m |-> "usd_m", million |-> "usd_m", b |-> "usd_b", billion |-> "usd_b",
   percent |-> "pct"]

\* A name that is not known stays what it is.
Normal(aliases, name) ==
  IF name \in DOMAIN aliases THEN aliases[name] ELSE name

-----------------------------------------------------------------------------
(* Conflicts (conflict.py) *)

\* _norm: what two readings must share to be compared.
ComparisonKey(m) ==
  <<m.company, m.ticker, Normal(MarketAliases, m.market),
    Normal(MetricAliases, m.metric), m.period,
    Normal(CurrencyAliases, m.currency), Normal(UnitAliases, m.unit)>>

\* _has_all_keys.
Complete(m) ==
  /\ "" \notin {m.company, m.ticker, m.market, m.metric, m.currency, m.unit}
  /\ m.period # 0

Distance(m, n) == IF m <= n THEN n - m ELSE m - n

\* Half a percent of the second value is let pass.
Agree(left, right) ==
  \/ left = right
  \/ right # 0 /\ 1000 * Distance(left, right) <= 5 * Distance(right, 0)

Compare(left, right) ==
  IF ~Complete(left) \/ ~Complete(right) THEN "INSUFFICIENT"
  ELSE IF ComparisonKey(left) # ComparisonKey(right) THEN "NOT_COMPARABLE"
  ELSE IF Agree(left.value, right.value) THEN "MATCH" ELSE "CONFLICT"

\* What a reading must name to be looked at, and the group it is put in, by
\* the names as they are given.
Listed(m) ==
  /\ "" \notin {m.ticker, m.market, m.metric, m.currency, m.source}
  /\ m.period # 0

Group(m) == <<m.ticker, m.market, m.metric, m.period>>

\* The pairs that are in conflict: two sources give different values of one
\* figure.
DetectMetricConflicts(figures) ==
  {pair \in (DOMAIN figures) \X (DOMAIN figures) :
     LET left == figures[pair[1]]  right == figures[pair[2]]
     IN  /\ pair[1] < pair[2]
         /\ Listed(left) /\ Listed(right) /\ Group(left) = Group(right)
         /\ left.source # right.source
         /\ Compare(left, right) = "CONFLICT"}

-----------------------------------------------------------------------------
(* Calculations *)

CalculationIds ==
  [name : STRING, metric : STRING, period : Nat, currency : STRING]

\* calculation_id is None.
NoCalculation == [name |-> "", metric |-> "", period |-> 0, currency |-> ""]

\* _ratio: nothing is divided by zero.
HasRatio(denominator) == denominator # 0

\* project_growth: a growth rate above -1, less than everything was lost.
CanProject(prev, last) == prev * last > 0

\* The readings of a metric in a row, that is one period in one currency,
\* whatever the company; the last of them wins.
Rows(figures) == {<<m.period, m.currency>> : m \in ToSet(figures)}

Cell(figures, row, metric) ==
  {i \in DOMAIN figures : /\ figures[i].metric = metric
                          /\ <<figures[i].period, figures[i].currency>> = row}

LastOf(indices) == CHOOSE i \in indices : \A j \in indices : j <= i

\* calculate_net_margin: the rows that have both figures, the revenue being one
\* to divide by.
MarginRows(figures) ==
  {row \in Rows(figures) :
     /\ Cell(figures, row, "net_income") # {}
     /\ Cell(figures, row, "revenue") # {}
     /\ HasRatio(figures[LastOf(Cell(figures, row, "revenue"))].value)}

\* The readings of a metric over time: by period, and as they were given.
Series(figures, metric) == {i \in DOMAIN figures : figures[i].metric = metric}

Newest(figures, indices) ==
  CHOOSE i \in indices : \A j \in indices \ {i} :
    \/ figures[j].period < figures[i].period
    \/ figures[j].period = figures[i].period /\ j < i

\* The metrics whose growth (calculate_growth) goes on: that of the two readings
\* which are the newest.
GrowingMetrics(figures) ==
  {metric \in {m.metric : m \in ToSet(figures)} :
     LET series  == Series(figures, metric)
         last    == Newest(figures, series)
         earlier == series \ {last}
         prev    == Newest(figures, earlier)
     IN  /\ earlier # {} /\ HasRatio(figures[prev].value)
         /\ CanProject(figures[prev].value, figures[last].value)}

\* What a discounted cash flow would be made of.
CashFlows(figures) ==
  {m \in ToSet(figures) :
     m.metric \in {"free_cash_flow", "operating_cash_flow"}}
=============================================================================
