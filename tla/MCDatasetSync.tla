------------------------------ MODULE MCDatasetSync ------------------------------
\* Every dataset of the catalogue once, with those that share its tables.
EXTENDS DatasetSync

Cell(p, i, v) == [part |-> p, item |-> i, val |-> v]
FewSheets ==
    {{Cell("a", "x", 1), Cell("b", "x", 1)},
     {Cell("a", "x", 2), Cell("b", "x", 1)},
     {Cell("a", "x", 1), Cell("a", "y", 1)}}

AllGroups ==
    <<{InstitutionalHolders, MutualFundHolders}, {MajorHolders}, {InsiderPurchases}, {InsiderRoster},
      {InsiderTransactions}, {FundsData}, {Recommendations}, {EpsTrend}, {EpsRevisions},
      {GrowthEstimates}, {EarningsEstimate, RevenueEstimate}, {AnalystPriceTargets},
      {UpgradesDowngrades}, {EarningsHistory}, {Statement("income_stmt")},
      {Statement("balance_sheet")}, {Statement("cashflow")}, {Valuation("valuation")}, {Calendar},
      {EarningsDates(TRUE), EarningsDates(FALSE)}, {SecFilings}, {Info}, {FastInfo},
      {HistoryMetadata}, {SymbolsDataset, Isin, Lookup}, {History}, {Dividends}, {Splits}, {CapitalGains},
      {SharesFull}, {News, Search}, {Options}, {MarketStatus}, {MarketSummary}, {EarningsCalendar},
      {EconomicCalendar}, {IpoCalendar}, {SplitsCalendar}, {Screener}, {DomainTaxonomy},
      {SectorProfile, Search}, {IndustryProfile, DomainTaxonomy}, {SectorRankings}, {IndustryRankings}>>

\* The groups with many tables, or with answers of many kinds, have two syncs, the others
\* three; two days, but where nothing shared between the two has a day.
Rounds ==
    [g \in DOMAIN AllGroups |->
        IF AllGroups[g] \cap {FundsData, Lookup, Search, SectorRankings, IndustryRankings, IndustryProfile,
                               Info, Options} # {}
        THEN 2 ELSE 3]
Dates == [g \in DOMAIN AllGroups |-> IF News \in AllGroups[g] THEN 1 ELSE 2]
================================================================================
