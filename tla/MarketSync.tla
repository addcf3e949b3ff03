------------------------------- MODULE MarketSync -------------------------------
(***************************************************************************)
(* BorsdataJob of the nightly synchronisation beside CompanyRefreshService *)
(* of an analysis.  Both fetch reports, prices, dividends and KPIs from    *)
(* Börsdata and upsert them, one domain after the other, and leave a job   *)
(* row that says how it went.  Data have versions: a fetch returns the     *)
(* version Börsdata has by then, a save stores it whatever is there.       *)
(***************************************************************************)
EXTENDS Naturals, Sequences, SequencesExt

CONSTANTS
  Companies,    \* a sequence, as the jobs take them
  Mapped,       \* the companies with a borsdata_id
  Listed,       \* the companies Börsdata has prices of
  BatchSize,
  LastVersion,  \* bound on the versions of the data
  MaxOutages,    \* bound on failed calls and kills
  OneWriter     \* no refresh while the job runs

Known == Range(Companies)
ASSUME MarketAssumption ==
  /\ Mapped \cup Listed \subseteq Known /\ OneWriter \in BOOLEAN
  /\ {BatchSize, LastVersion} \subseteq Nat \ {0} /\ MaxOutages \in Nat

VARIABLES
  upstream,    \* the version of Börsdata's data
  stored,      \* the version in the tables, per company and domain, or 0
  syncRow,     \* the latest borsdata_sync row of each company
  refreshRow,  \* the latest company_refresh row of each company
  job,         \* the memory of BorsdataJob
  refresh,     \* the memory of CompanyRefreshService
  outages

marketVars == <<upstream, stored, syncRow, refreshRow, job, refresh, outages>>
-----------------------------------------------------------------------------
(* The domains BorsdataJob stores, and those a refresh has besides.        *)
Domains == <<"reports", "prices", "dividends", "kpis">>
RefreshDomains == Domains \o <<"mfn", "insider", "holdings">>
Mandatory == Range(Domains) \cup {"mfn"}

SyncRow(status, since) == [status |-> status, since |-> since]
RefreshRow(status, since, done) == [status |-> status, since |-> since, domains |-> done]

NoJob == [pc |-> "idle", todo |-> << >>, batch |-> << >>, domain |-> 1, bundle |-> 0, version |-> 0]
NoRefresh == [pc |-> "idle", company |-> Head(Companies), domain |-> 1, version |-> 0]

MarketInit ==
  /\ upstream = 1
  /\ stored = [c \in Known |-> [d \in Range(Domains) |-> 0]]
  /\ syncRow = [c \in Known |-> SyncRow("none", 0)]
  /\ refreshRow = [c \in Known |-> RefreshRow("none", 0, << >>)]
  /\ job = NoJob /\ refresh = NoRefresh /\ outages = 0

NewData ==
  /\ upstream < LastVersion /\ upstream' = upstream + 1
  /\ UNCHANGED <<stored, syncRow, refreshRow, job, refresh, outages>>

Fault == outages < MaxOutages /\ outages' = outages + 1
Save(c, d, version) == stored' = [stored EXCEPT ![c][d] = version]
HasPrices(c) == stored[c]["prices"] > 0
-----------------------------------------------------------------------------
JobAt(pc) == job.pc = pc
Current == Head(job.batch)
Domain == Domains[job.domain]

Batch(todo) == SubSeq(todo, 1, IF Len(todo) < BatchSize THEN Len(todo) ELSE BatchSize)
Later(todo) == SubSeq(todo, Len(Batch(todo)) + 1, Len(todo))
NextBatch(todo) ==
  IF todo = << >> THEN NoJob
  ELSE [NoJob EXCEPT !.pc = "bundle", !.todo = Later(todo), !.batch = Batch(todo)]

(* The next company of the batch, or the next batch.                       *)
NextCompany ==
  IF Len(job.batch) = 1 THEN NextBatch(job.todo)
  ELSE [job EXCEPT !.pc = "fetch", !.batch = Tail(job.batch), !.domain = 1]

Settled(c, status) == [syncRow EXCEPT ![c].status = status]

(* run: a row for every company, failed at once without a borsdata_id.     *)
StartJob ==
  /\ JobAt("idle") /\ (OneWriter => refresh.pc = "idle")
  /\ syncRow' = [c \in Known |-> SyncRow(IF c \in Mapped THEN "running" ELSE "failed", upstream)]
  /\ job' = NextBatch(SelectSeq(Companies, LAMBDA c : c \in Mapped))
  /\ UNCHANGED <<upstream, stored, refreshRow, refresh, outages>>

FetchBundles ==
  /\ JobAt("bundle")
  /\ job' = [job EXCEPT !.pc = "fetch", !.bundle = upstream]
  /\ UNCHANGED <<upstream, stored, syncRow, refreshRow, refresh, outages>>

(* A batch whose bundles cannot be fetched fails; the next one is tried.   *)
FailBundles ==
  /\ JobAt("bundle") /\ Fault
  /\ syncRow' = [c \in Known |-> IF c \in Range(job.batch) THEN SyncRow("failed", syncRow[c].since)
                                 ELSE syncRow[c]]
  /\ job' = NextBatch(job.todo)
  /\ UNCHANGED <<upstream, stored, refreshRow, refresh>>

(* sync_company: the domain is fetched; the reports came with the batch.   *)
FetchDomain ==
  /\ JobAt("fetch")
  /\ job' = [job EXCEPT !.pc = "store",
               !.version = IF Domain = "reports" THEN job.bundle ELSE upstream]
  /\ UNCHANGED <<upstream, stored, syncRow, refreshRow, refresh, outages>>

(* Whether a company has anything to store: a calendar needs prices.       *)
Stores(c, d) ==
  CASE d = "prices" -> c \in Listed
    [] d = "dividends" -> HasPrices(c)
    [] OTHER -> TRUE

VariantAfterDomain ==     \* the KPIs are forgotten
  IF job.domain < 3 THEN [job EXCEPT !.pc = "fetch", !.domain = job.domain + 1, !.version = 0]
  ELSE [job EXCEPT !.pc = "complete", !.version = 0]

AfterDomain ==
  IF job.domain < Len(Domains)
  THEN [job EXCEPT !.pc = "fetch", !.domain = job.domain + 1, !.version = 0]
  ELSE [job EXCEPT !.pc = "complete", !.version = 0]

StoreDomain ==
  /\ JobAt("store")
  /\ IF Stores(Current, Domain) THEN Save(Current, Domain, job.version) ELSE UNCHANGED stored
  /\ job' = AfterDomain
  /\ UNCHANGED <<upstream, syncRow, refreshRow, refresh, outages>>

(* What raises in sync_company fails its company, and what is stored stays.*)
FailCompany ==
  /\ job.pc \in {"fetch", "store"} /\ Fault
  /\ syncRow' = Settled(Current, "failed") /\ job' = NextCompany
  /\ UNCHANGED <<upstream, stored, refreshRow, refresh>>

CompleteCompany ==
  /\ JobAt("complete")
  /\ syncRow' = Settled(Current, "completed") /\ job' = NextCompany
  /\ UNCHANGED <<upstream, stored, refreshRow, refresh, outages>>
-----------------------------------------------------------------------------
RefreshAt(pc) == refresh.pc = pc
Refreshed == RefreshDomains[refresh.domain]

StartRefresh(c) ==
  /\ RefreshAt("idle") /\ (OneWriter => JobAt("idle"))
  /\ refreshRow' = [refreshRow EXCEPT ![c] = RefreshRow("running", upstream, << >>)]
  /\ refresh' = [pc |-> "fetch", company |-> c, domain |-> 1, version |-> 0]
  /\ UNCHANGED <<upstream, stored, syncRow, job, outages>>

(* The callbacks refuse a company without borsdata_id, and a calendar      *)
(* without prices.                                                         *)
Refusing(c, d) ==
  /\ d # "mfn"
  /\ c \notin Mapped \/ (d = "dividends" /\ ~HasPrices(c))

(* _persist_manifest: the domain in the row, and the next domain.          *)
Report(outcome) ==
  LET c == refresh.company IN
  /\ refreshRow' = [refreshRow EXCEPT ![c].domains = Append(@, outcome)]
  /\ refresh' = IF refresh.domain < Len(RefreshDomains)
                THEN [refresh EXCEPT !.pc = "fetch", !.domain = refresh.domain + 1, !.version = 0]
                ELSE [refresh EXCEPT !.pc = "finish", !.version = 0]

FetchRefresh ==
  /\ RefreshAt("fetch") /\ ~Refusing(refresh.company, Refreshed)
  /\ refresh' = [refresh EXCEPT !.pc = "store", !.version = upstream]
  /\ UNCHANGED <<upstream, stored, syncRow, refreshRow, job, outages>>

StoreRefresh ==
  LET c == refresh.company
      d == Refreshed
  IN
  /\ RefreshAt("store")
  /\ IF d \in Range(Domains) /\ Stores(c, d) THEN Save(c, d, refresh.version)
     ELSE UNCHANGED stored
  /\ Report("success")
  /\ UNCHANGED <<upstream, syncRow, job, outages>>

RefuseRefresh ==
  /\ RefreshAt("fetch") /\ Refusing(refresh.company, Refreshed)
  /\ Report("failed")
  /\ UNCHANGED <<upstream, stored, syncRow, job, outages>>

(* Whatever raises, or a result that reports failures.                     *)
FailRefresh ==
  /\ refresh.pc \in {"fetch", "store"} /\ Fault
  /\ Report("failed")
  /\ UNCHANGED <<upstream, stored, syncRow, job>>

(* blocked_before_model: a mandatory domain failed.                        *)
Blocked(done) ==
  \E i \in DOMAIN done : done[i] = "failed" /\ RefreshDomains[i] \in Mandatory

FinishRefresh ==
  LET c == refresh.company IN
  /\ RefreshAt("finish")
  /\ refreshRow' = [refreshRow EXCEPT ![c].status =
                      IF Blocked(refreshRow[c].domains) THEN "failed" ELSE "completed"]
  /\ refresh' = NoRefresh
  /\ UNCHANGED <<upstream, stored, syncRow, job, outages>>
-----------------------------------------------------------------------------
KillJob ==
  /\ ~JobAt("idle") /\ Fault /\ job' = NoJob
  /\ UNCHANGED <<upstream, stored, syncRow, refreshRow, refresh>>
KillRefresh ==
  /\ ~RefreshAt("idle") /\ Fault /\ refresh' = NoRefresh
  /\ UNCHANGED <<upstream, stored, syncRow, refreshRow, job>>

JobStep ==
  \/ StartJob \/ FetchBundles \/ FailBundles \/ FetchDomain \/ StoreDomain
  \/ FailCompany \/ CompleteCompany
RefreshStep ==
  \/ \E c \in Known : StartRefresh(c)
  \/ FetchRefresh \/ StoreRefresh \/ RefuseRefresh \/ FailRefresh \/ FinishRefresh

MarketNext == NewData \/ JobStep \/ RefreshStep \/ KillJob \/ KillRefresh
MarketSpec == MarketInit /\ [][MarketNext]_marketVars
-----------------------------------------------------------------------------
Fresh(c, d, since) == Stores(c, d) => stored[c][d] >= since

(* A completed row of the nightly job means that every domain of its       *)
(* company is at least as new as the start of the job, whatever failed for *)
(* other companies or in earlier runs; and what a refresh lets a model see *)
(* was fetched by that refresh: its row is completed only with every       *)
(* mandatory domain, and a domain it calls a success is stored.            *)
CompletedIsFresh ==
  \A c \in Known :
    /\ syncRow[c].status = "completed" =>
         \A d \in Range(Domains) : Fresh(c, d, syncRow[c].since)
    /\ LET row == refreshRow[c] IN
       /\ \A i \in DOMAIN row.domains :
            row.domains[i] = "success" /\ RefreshDomains[i] \in Range(Domains) =>
              Fresh(c, RefreshDomains[i], row.since)
       /\ row.status = "completed" =>
            \A i \in DOMAIN RefreshDomains :
              RefreshDomains[i] \in Mandatory => row.domains[i] = "success"
=============================================================================
