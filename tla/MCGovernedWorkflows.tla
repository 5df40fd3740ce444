------------------------ MODULE MCGovernedWorkflows ------------------------
(***************************************************************************)
(* GovernedWorkflows for TLC: three evidences, of which two are kept, and  *)
(* what the requests to the report and due diligence graphs bring.  The    *)
(* second and the third evidence name the company, the first holds an      *)
(* injection, the third has scores of 0.  The figures are of one company,  *)
(* the model of a debater answers with one that is sound and one that      *)
(* cites the third evidence.                                               *)
(***************************************************************************)
EXTENDS GovernedWorkflows

MCEvidences == 1..3
MCRelevance == <<100, 90, 0>>
MCAuthority == <<100, 60, 0>>
MCInjected  == {1}

\* The third one names the period before as well.
MCNaming == <<{}, {<<"300750", 2>>}, {<<"300750", 1>>, <<"300750", 2>>}>>

Reading(metric, period, value, source, currency) ==
  [company |-> "CATL", ticker |-> "300750", market |-> "CN",
   metric |-> metric, period |-> period, value |-> value,
   currency |-> currency, unit |-> "yuan", source |-> source]

\* Nothing, figures from which nothing follows, what grows from one period to the
\* next, a company in the red with its cash flow and two sources that agree, and
\* two that do not.
MCFigures ==
  LET revenue(period, value) == Reading("revenue", period, value, "akshare", "CNY")
      income(value)          == Reading("net_income", 2, value, "akshare", "CNY")
      flow(value)            == Reading("free_cash_flow", 2, value, "akshare", "CNY")
      other(value, currency) == Reading("revenue", 2, value, "yfinance", currency)
  IN  {<<>>, <<revenue(2, 0), income(100)>>,
       <<revenue(1, 800), revenue(2, 1000), income(100)>>,
       <<revenue(2, 1000), income(-100), flow(10), other(1004, "RMB")>>,
       <<revenue(2, 1000), other(1100, "CNY"), income(100)>>}

MCDrafts == {{}, {[cites |-> {2}, confidence |-> 90], [cites |-> {3}, confidence |-> 40]}}

Margin(sources) ==
  [id |-> [name |-> "net_margin", metric |-> "", period |-> 2, currency |-> "CNY"],
   sources |-> sources]

MCGivenCalculations == {{}, {Margin({})}, {Margin({2})}}

GivenClaim(type, cites, calc) == [type |-> type, cites |-> cites, calc |-> calc]

\* No claims, a well-founded one, an opinion, one without foundation, one whose
\* evidence and one whose calculation need not be there, and two at once.
MCGivenClaims ==
  LET fact    == GivenClaim("fact", {1}, NoCalculation)
      opinion == GivenClaim("research", {}, NoCalculation)
      bare    == GivenClaim("numeric", {}, NoCalculation)
      cited   == GivenClaim("numeric", {2}, Margin({}).id)
  IN  {{}, {fact}, {opinion}, {bare}, {cited}, {fact, opinion}, {fact, cited}}
=============================================================================
