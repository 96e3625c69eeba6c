------------------------------- MODULE Catalogue -------------------------------
(***************************************************************************)
(* The tables of src/yfin/models and the datasets of src/yfin/datasets:    *)
(* what each dataset writes from one answer, with which mode and scope,    *)
(* and through which gate.  DatasetSync gives these records their meaning. *)
(*                                                                         *)
(* Columns are reduced to what tells rows apart and what can change:       *)
(*   owner  symbol, domain_key, query_term, screen_key or region;          *)
(*   day    as_of_date (or the fetched_at of a history row) in the key;    *)
(*   part   the column by which one answer splits a table (holder_type,    *)
(*          category, section, list, period, region of a ranking, ...);    *)
(*   item   the rest of the key (holder, rank, contract, uuid, date, ...); *)
(* and the data columns to one value, or to one for each set of writers.   *)
(* A row whose key cannot be read from the answer is dropped by every      *)
(* normalize; here it is not in the answer.                                *)
(***************************************************************************)
EXTENDS Naturals, Sequences, FiniteSets

\* A table: its primary key.
Table(name, key) == [name |-> name, key |-> key]

(* What a dataset does to one table.                                        *)
(*   shape   one: a row per answer, or per part of it; self: the row of the *)
(*           owner in `symbols`; list: as many rows as the answer has; tag: *)
(*           the symbols an article names; link: those and the one asked    *)
(*   mode    replace: rows of the scope not in the answer are deleted first *)
(*   given   where the values of the scope come from: every part the        *)
(*           dataset knows, the parts that were read, or the rows           *)
(*   insert, update   the columns set on a new row and on a conflict: c is  *)
(*           what the dataset describes, d and e what others do             *)
(*   known   is_known: marked against `symbols` before the write, or fixed  *)
Write(t, shape, mode, scope, given) ==
    [table |-> t.name, key |-> t.key, shape |-> shape, mode |-> mode, scope |-> scope,
     given |-> given, parts |-> {"a", "b"}, insert |-> {"c"}, update |-> {"c"}, known |-> "no"]

One(t)                == Write(t, "one", "upsert", {}, "rows")
List(t)               == Write(t, "list", "upsert", {}, "rows")
Replace(t, scope)     == Write(t, "list", "replace", scope, "all")
ReplaceRead(t, scope) == Write(t, "list", "replace", scope, "read")
ReplaceSeen(t, scope) == Write(t, "list", "replace", scope, "rows")

OfPart(p, w)  == [w EXCEPT !.parts = {p}]           \* the dataset's part of a shared table
Marked(w)     == [w EXCEPT !.known = "marked"]
Shaped(s, w)  == [w EXCEPT !.shape = s]
Columns(ins, upd, w) == [w EXCEPT !.insert = ins, !.update = upd]

(* A dataset: its gate, the writes the gate leaves alone, those behind it.   *)
Dataset(name, gate, free, writes) ==
    [name |-> name, gate |-> gate, free |-> free, writes |-> writes, regional |-> FALSE]

Ungated(name, writes)   == Dataset(name, "none", writes, <<>>)
AsOf(name, writes)      == Dataset(name, "asof", <<>>, writes)
Discovery(name, free, writes) == Dataset(name, "asof", free, writes)
HashGated(name, free, writes) == Dataset(name, "hash", free, writes)   \* header, children
Snapshot(name, writes)  == Dataset(name, "snapshot", <<>>, writes)     \* row, history row
Regional(ds)            == [ds EXCEPT !.regional = TRUE]     \* an answer is about one part, the region

--------------------------------------------------------------------------------
(* Holders. *)

HolderBreakdown     == Table("holder_breakdown", {"owner", "day"})
InstitutionalHolder == Table("institutional_holders", {"owner", "day", "part", "item"})
InsiderActivity     == Table("insider_activity", {"owner", "day"})
InsiderTransaction  == Table("insider_transactions", {"owner", "item"})
InsiderRosterHolder == Table("insider_roster", {"owner", "day", "item"})

MajorHolders == AsOf("major_holders", <<One(HolderBreakdown)>>)
InsiderPurchases == AsOf("insider_purchases", <<One(InsiderActivity)>>)
InsiderRoster == AsOf("insider_roster_holders", <<Replace(InsiderRosterHolder, {"owner", "day"})>>)
InsiderTransactions == Ungated("insider_transactions", <<List(InsiderTransaction)>>)

\* Two datasets, one table: the scope of each is its own holder_type.
HolderList(name, type) ==
    AsOf(name, <<OfPart(type, Replace(InstitutionalHolder, {"owner", "day", "part"}))>>)
InstitutionalHolders == HolderList("institutional_holders", "a")
MutualFundHolders == HolderList("mutualfund_holders", "b")

--------------------------------------------------------------------------------
(* Funds: four tables behind one gate row, which is taken from the profile. *)

FundProfile    == Table("fund_profile", {"owner", "day"})
FundMetric     == Table("fund_metrics", {"owner", "day", "part", "item"})
FundWeighting  == Table("fund_weightings", {"owner", "day", "part", "item"})
FundTopHolding == Table("fund_top_holdings", {"owner", "day", "item"})

FundsData == AsOf("funds_data",
    <<One(FundProfile),
      Replace(FundMetric, {"owner", "day"}),
      Replace(FundWeighting, {"owner", "day", "part"}),   \* both categories, whether or not in the answer
      Marked(Replace(FundTopHolding, {"owner", "day"}))>>)

--------------------------------------------------------------------------------
(* Analyst views: frames by period, of which two share a table. *)

AnalystRecommendation == Table("analyst_recommendations", {"owner", "day", "item"})
AnalystGradeChange    == Table("analyst_grade_changes", {"owner", "item"})
AnalystPriceTarget    == Table("analyst_price_targets", {"owner", "day"})
AnalystEstimate       == Table("analyst_estimates", {"owner", "day", "part", "item"})
AnalystEpsTrend       == Table("analyst_eps_trend", {"owner", "day", "item"})
AnalystEpsRevision    == Table("analyst_eps_revisions", {"owner", "day", "item"})
AnalystGrowthEstimate == Table("analyst_growth_estimates", {"owner", "day", "item"})
EarningsHistoryRow    == Table("earnings_history", {"owner", "item"})

PeriodFrame(name, w) == AsOf(name, <<w>>)

Recommendations == PeriodFrame("recommendations", List(AnalystRecommendation))
EpsTrend == PeriodFrame("eps_trend", List(AnalystEpsTrend))
EpsRevisions == PeriodFrame("eps_revisions", List(AnalystEpsRevision))
GrowthEstimates == PeriodFrame("growth_estimates", List(AnalystGrowthEstimate))
EarningsEstimate == PeriodFrame("earnings_estimate", OfPart("a", List(AnalystEstimate)))
RevenueEstimate == PeriodFrame("revenue_estimate", OfPart("b", List(AnalystEstimate)))
AnalystPriceTargets == AsOf("analyst_price_targets", <<One(AnalystPriceTarget)>>)
UpgradesDowngrades == Ungated("upgrades_downgrades", <<List(AnalystGradeChange)>>)
EarningsHistory == Ungated("earnings_history", <<List(EarningsHistoryRow)>>)

--------------------------------------------------------------------------------
(* Financials.  A statement writes one header per period, which carries the *)
(* hash of the period, and the facts of the periods whose hash moved.       *)

FinancialPeriod  == Table("financial_periods", {"owner", "part"})
FinancialFact    == Table("financial_facts", {"owner", "part", "item"})
TickerCalendar   == Table("ticker_calendar", {"owner"})
TickerCalendarHistory == Table("ticker_calendar_history", {"owner", "day"})
EarningsDate     == Table("earnings_dates", {"owner", "item"})
SecFiling        == Table("sec_filings", {"owner", "part"})
SecFilingExhibit == Table("sec_filing_exhibits", {"owner", "part", "item"})

Statement(name) ==
    HashGated(name, <<>>, <<One(FinancialPeriod), ReplaceRead(FinancialFact, {"owner", "part"})>>)
\* The same tables and gate; the `Current` column, which is no period, is dropped first.
Valuation(name) == Statement(name)

Calendar == Snapshot("calendar", <<One(TickerCalendar), One(TickerCalendarHistory)>>)

\* Only a fetch that read every page may delete what it did not see.
EarningsDates(complete) ==
    Ungated("earnings_dates",
        <<IF complete THEN ReplaceSeen(EarningsDate, {"owner"}) ELSE List(EarningsDate)>>)

\* A filing is never taken back; its exhibits are those of the last answer that lists it.
SecFilings ==
    Ungated("sec_filings",
        <<One(SecFiling), ReplaceRead(SecFilingExhibit, {"owner", "part"})>>)


--------------------------------------------------------------------------------
(* Snapshots of a symbol, its identity, prices, news and options. *)

TickerInfo            == Table("ticker_info", {"owner"})
TickerInfoHistory     == Table("ticker_info_history", {"owner", "day"})
TickerFastInfo        == Table("ticker_fast_info", {"owner"})
TickerFastInfoHistory == Table("ticker_fast_info_history", {"owner", "day"})
HistoryMetadataRow    == Table("history_metadata", {"owner"})
CompanyOfficer        == Table("company_officers", {"owner", "item"})
Symbol                == Table("symbols", {"item"})
PriceHistory          == Table("price_history", {"owner", "item"})
Dividend              == Table("dividends", {"owner", "item"})
Split                 == Table("splits", {"owner", "item"})
CapitalGain           == Table("capital_gains", {"owner", "item"})
SharesFullRow         == Table("shares_full", {"owner", "part", "item"})
NewsRow               == Table("news", {"item"})
NewsSymbol            == Table("news_symbols", {"owner", "item"})
OptionExpiration      == Table("option_expirations", {"owner", "day", "part"})
OptionQuote           == Table("option_quotes", {"owner", "day", "part", "item"})

\* Officers are replaced by an answer that lists any.
Info == Snapshot("info",
    <<One(TickerInfo), One(TickerInfoHistory), ReplaceSeen(CompanyOfficer, {"owner"})>>)
FastInfo == Snapshot("fast_info", <<One(TickerFastInfo), One(TickerFastInfoHistory)>>)
HistoryMetadata == Ungated("history_metadata", <<One(HistoryMetadataRow)>>)

(* A row of `symbols`: c is what Yahoo says of it; d is is_active and isin,  *)
(* which no sync that describes the symbol may move.                         *)
SymbolsDataset == Ungated("symbols", <<Columns({"c", "d"}, {"c"}, Shaped("self", One(Symbol)))>>)
Isin == Ungated("isin", <<Columns({"d"}, {"d"}, Shaped("self", One(Symbol)))>>)
Discovered == Columns({"c", "d"}, {"c"}, List(Symbol))

\* Four datasets read one history frame; the fifth is a series of its own.
History == Ungated("history", <<List(PriceHistory)>>)
SeriesOf(name, t) == Ungated(name, <<List(t)>>)
Dividends == SeriesOf("dividends", Dividend)
Splits == SeriesOf("splits", Split)
CapitalGains == SeriesOf("capital_gains", CapitalGain)
SharesFull == Ungated("shares_full", <<List(SharesFullRow)>>)

\* An article is linked to the symbol it was asked for and to those it names.
News == Ungated("news",
    <<Columns({"c", "d"}, {"c", "d"}, List(NewsRow)), Marked(Shaped("link", List(NewsSymbol)))>>)

\* A chain that could not be read is no empty chain: only what was read is replaced.
Options == AsOf("options",
    <<Columns({}, {}, Shaped("one", Replace(OptionExpiration, {"owner", "day"}))),
      ReplaceRead(OptionQuote, {"owner", "day", "part"})>>)

--------------------------------------------------------------------------------
(* The market: calendars, the state of regional markets, screens. *)

MarketStatusRow      == Table("market_status", {"owner"})
MarketStatusHistory  == Table("market_status_history", {"owner", "day"})
MarketSummaryRow     == Table("market_summary", {"owner", "part"})
MarketSummaryHistory == Table("market_summary_history", {"owner", "part", "day"})
CalendarEarnings     == Table("calendar_earnings", {"item", "part"})
CalendarEconomic     == Table("calendar_economic", {"owner", "item", "part"})
CalendarIpo          == Table("calendar_ipo", {"item", "part"})
CalendarSplits       == Table("calendar_splits", {"item", "part"})
Screen               == Table("screens", {"owner"})
ScreenRun            == Table("screen_runs", {"owner", "day"})
ScreenMember         == Table("screen_members", {"owner", "day", "item"})
ScreenQuote          == Table("screen_quotes", {"item", "day"})

MarketStatus == Snapshot("market_status", <<One(MarketStatusRow), One(MarketStatusHistory)>>)
MarketSummary == Snapshot("market_summary", <<One(MarketSummaryRow), One(MarketSummaryHistory)>>)

\* A calendar is never taken back: an event that is announced no more stays.
CalendarOf(name, w) == Ungated(name, <<w>>)
EarningsCalendar == CalendarOf("earnings_calendar", Marked(List(CalendarEarnings)))
EconomicCalendar == CalendarOf("economic_calendar", List(CalendarEconomic))
IpoCalendar == CalendarOf("ipo_calendar", Marked(List(CalendarIpo)))
SplitsCalendar == CalendarOf("splits_calendar", Marked(List(CalendarSplits)))

\* The run of a screen carries the hash of its members; the rest is written every time.
Listed(w) == [w EXCEPT !.known = "yes"]      \* the answer's own symbols were just written
Screener == HashGated("screener",
    <<One(Screen), Discovered, Listed(List(ScreenQuote))>>,
    <<One(ScreenRun), Listed(Replace(ScreenMember, {"owner", "day"}))>>)

--------------------------------------------------------------------------------
(* Domains: sectors and industries. *)

Domain           == Table("domains", {"owner"})
DomainMetric     == Table("domain_metrics", {"owner", "day"})
DomainTopCompany == Table("domain_top_companies", {"owner", "part", "day", "item"})
DomainTopFund    == Table("domain_top_funds", {"owner", "part", "day", "item"})
DomainTopMover   == Table("domain_top_movers", {"owner", "part", "day", "item"})
ResearchReport   == Table("research_reports", {"item"})
DomainReportLink == Table("domain_report_links", {"owner", "day", "item"})

\* The taxonomy knows the tree, the profile of an industry its description (d).
DomainTaxonomy == Ungated("domain_taxonomy",
    <<Columns({"c", "d"}, {"c"}, Shaped("self", One(Symbol))), Columns({"c", "d"}, {"c"}, One(Domain))>>)

\* A report's provider and date (c) a profile and a search both tell, the title and the
\* rating (d) the profile alone, the author and the headline (e) the search alone.
Reports == Columns({"c", "d"}, {"c", "d"}, List(ResearchReport))
ReportLinks == ReplaceSeen(DomainReportLink, {"owner", "day"})
Metrics == Shaped("one", Replace(DomainMetric, {"owner", "day"}))
SectorProfile == AsOf("sector_profile", <<Metrics, Reports, ReportLinks>>)
IndustryProfile == AsOf("industry_profile",
    <<Metrics, Reports, ReportLinks, Columns({"c", "d"}, {"d"}, One(Domain))>>)

RankingOf(t) == Marked(ReplaceRead(t, {"owner", "part", "day"}))
SectorRankings == Regional(AsOf("sector_rankings",
    <<RankingOf(DomainTopCompany), RankingOf(DomainTopFund)>>))
IndustryRankings == Regional(AsOf("industry_rankings",
    <<RankingOf(DomainTopMover), RankingOf(DomainTopCompany)>>))

--------------------------------------------------------------------------------
(* Discovery by a search term. *)

LookupResult    == Table("lookup_results", {"owner", "day", "item"})
LookupTotal     == Table("lookup_totals", {"owner", "day", "part"})
SearchQuote     == Table("search_quotes", {"owner", "day", "item"})
SearchList      == Table("search_lists", {"owner", "day", "item"})
SearchReportHit == Table("search_report_hits", {"owner", "day", "item"})

Lookup == Discovery("lookup", <<Discovered>>, <<Listed(List(LookupResult)), One(LookupTotal)>>)

\* Of an article a search tells less than the news do: it sets d on a new row only.
SearchNews == Columns({"c", "d"}, {"c"}, List(NewsRow))
\* Its links go unmarked.
SearchLinks == Shaped("tag", List(NewsSymbol))
SearchReports == Columns({"c", "e"}, {"c", "e"}, List(ResearchReport))
Search == Discovery("search",
    <<Discovered, SearchNews, SearchLinks, SearchReports>>,
    <<Listed(List(SearchQuote)), List(SearchList), List(SearchReportHit)>>)

--------------------------------------------------------------------------------
(* The registries: who runs a dataset, hence what its owner is. *)

SymbolDatasets ==
    {MajorHolders, InsiderPurchases, InsiderRoster, InsiderTransactions, InstitutionalHolders,
     MutualFundHolders, FundsData, Recommendations, EpsTrend, EpsRevisions, GrowthEstimates,
     EarningsEstimate, RevenueEstimate, AnalystPriceTargets, UpgradesDowngrades, EarningsHistory,
     Statement("income_stmt"), Statement("balance_sheet"), Statement("cashflow"),
     Valuation("valuation"), Calendar, EarningsDates(TRUE), EarningsDates(FALSE), SecFilings,
     Info, FastInfo, HistoryMetadata, SymbolsDataset, Isin, History, Dividends, Splits, CapitalGains,
     SharesFull, News, Options}
MarketDatasets ==
    {MarketStatus, MarketSummary, EarningsCalendar, EconomicCalendar, IpoCalendar,
     SplitsCalendar, Screener}
DomainDatasets ==
    {DomainTaxonomy, SectorProfile, IndustryProfile, SectorRankings, IndustryRankings}
DiscoveryDatasets == {Lookup, Search}

================================================================================
