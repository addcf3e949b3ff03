--------------------------- MODULE ReleaseIngestion ---------------------------
(***************************************************************************)
(* The releases of one company.  MFN lists them, newest first.  NewsJob of *)
(* the scheduler stores each one it has not seen and announces it on a     *)
(* webhook; ResearchDocumentIngestionService, run by the analysis of the   *)
(* company or by an operator, stores the releases too and downloads the    *)
(* PDF of every report.  The two share news_releases and nothing else      *)
(* keeps them apart.                                                       *)
(***************************************************************************)
EXTENDS Naturals, Sequences, SequencesExt

CONSTANTS
  Releases,
  Reports,      \* the releases with a report title, and a PDF
  MaxArticles,  \* MAX_ARTICLES, of one look at the feed
  Retries,      \* requests of one notification
  MaxStops      \* bound on killed processes and failed scrapes

ASSUME ReleaseAssumption ==
  /\ Reports \subseteq Releases
  /\ {MaxArticles, Retries} \subseteq Nat \ {0} /\ MaxStops \in Nat

VARIABLES
  feed,       \* what MFN lists
  releases,   \* news_releases
  documents,  \* research_documents, by the release they were attached to
  messages,   \* how often the webhook announced each release
  news,       \* the memory of NewsJob
  sync,       \* the memory of the document synchronisation
  stops

releaseVars == <<feed, releases, documents, messages, news, sync, stops>>
-----------------------------------------------------------------------------
IsReport(r) == r \in Reports
IsOther(r) == r \notin Reports

FirstArticles(items) ==
  SubSeq(items, 1, IF Len(items) < MaxArticles THEN Len(items) ELSE MaxArticles)

(* _scrape_feed: reports first, and no more than MaxArticles.              *)
Selected(items) ==
  FirstArticles(SelectSeq(items, IsReport) \o SelectSeq(items, IsOther))

Unseen(items, rows) == SelectSeq(items, LAMBDA r : r \notin rows)

NoNews == [pc |-> "idle", todo |-> << >>, request |-> 0]
NoSync == [pc |-> "idle", delta |-> FALSE, todo |-> << >>]

ReleaseInit ==
  /\ feed = << >> /\ releases = {} /\ documents = {}
  /\ messages = [r \in Releases |-> 0]
  /\ news = NoNews /\ sync = NoSync /\ stops = 0

Publish(r) ==
  /\ r \notin Range(feed) /\ feed' = <<r>> \o feed
  /\ UNCHANGED <<releases, documents, messages, news, sync, stops>>

(* _scrape_details: a page that cannot be scraped is left out.             *)
Scraped(items) == IF stops < MaxStops
                  THEN {SelectSeq(items, LAMBDA r : r # lost) : lost \in Releases} \cup {items}
                  ELSE {items}
Lost(items, articles) == stops' = IF articles = items THEN stops ELSE stops + 1
-----------------------------------------------------------------------------
NewsAt(pc) == news.pc = pc
Article(m) == Head(m.todo)
NextArticle(m) == [NoNews EXCEPT !.pc = "check", !.todo = Tail(m.todo)]

(* NewsJob._run: get_matched_articles.                                     *)
StartNews ==
  /\ NewsAt("idle")
  /\ \E articles \in Scraped(Selected(feed)) :
       /\ news' = [NoNews EXCEPT !.pc = "check", !.todo = articles]
       /\ Lost(Selected(feed), articles)
  /\ UNCHANGED <<feed, releases, documents, messages, sync>>

VariantCheckArticle ==     \* not looked up
  /\ NewsAt("check")
  /\ news' = IF news.todo = << >> THEN NoNews ELSE [news EXCEPT !.pc = "save"]
  /\ UNCHANGED <<feed, releases, documents, messages, sync, stops>>

(* exists: a release that is stored is passed over.                        *)
CheckArticle ==
  /\ NewsAt("check")
  /\ news' = IF news.todo = << >> THEN NoNews
             ELSE IF Article(news) \in releases THEN NextArticle(news)
             ELSE [news EXCEPT !.pc = "save"]
  /\ UNCHANGED <<feed, releases, documents, messages, sync, stops>>

(* save: nothing is inserted when another process was faster, and the job  *)
(* announces the release all the same.                                     *)
SaveArticle ==
  /\ NewsAt("save")
  /\ releases' = releases \cup {Article(news)}
  /\ news' = [news EXCEPT !.pc = "notify"]
  /\ UNCHANGED <<feed, documents, messages, sync, stops>>

(* A failing save is logged, and the job goes on with the next article.    *)
FailSave ==
  /\ NewsAt("save") /\ stops < MaxStops /\ stops' = stops + 1
  /\ news' = NextArticle(news)
  /\ UNCHANGED <<feed, releases, documents, messages, sync>>

(* request_with_retry: a time-out or a server error is tried again, up to  *)
(* Retries requests; what remains is swallowed by notify_new_release.      *)
AfterRequest(m, answer) ==
  IF answer \in {"ok", "refused"} \/ m.request + 1 = Retries THEN NextArticle(m)
  ELSE [m EXCEPT !.request = m.request + 1]

(* The webhook posts the message and its answer arrives, or is late; or it *)
(* posts nothing and refuses or fails.                                     *)
Notify ==
  /\ NewsAt("notify")
  /\ \E answer \in {"ok", "late", "refused", "failed"} :
       /\ answer # "ok" => stops < MaxStops
       /\ stops' = IF answer = "ok" THEN stops ELSE stops + 1
       /\ messages' = IF answer \in {"ok", "late"}
                      THEN [messages EXCEPT ![Article(news)] = @ + 1] ELSE messages
       /\ news' = AfterRequest(news, answer)
  /\ UNCHANGED <<feed, releases, documents, sync>>

StopNews ==
  /\ ~NewsAt("idle") /\ stops < MaxStops /\ stops' = stops + 1 /\ news' = NoNews
  /\ UNCHANGED <<feed, releases, documents, messages, sync>>

NewsStep == CheckArticle \/ SaveArticle \/ FailSave \/ Notify
-----------------------------------------------------------------------------
SyncAt(pc) == sync.pc = pc
NextRelease == sync' = [sync EXCEPT !.pc = "release", !.todo = Tail(sync.todo)]

(* sync_company, or sync_company_delta: its look at the feed.              *)
StartSync(delta) ==
  /\ SyncAt("idle")
  /\ sync' = [pc |-> IF delta THEN "unseen" ELSE "scrape", delta |-> delta,
              todo |-> Selected(feed)]
  /\ UNCHANGED <<feed, releases, documents, messages, news, stops>>

(* list_urls_for_company: only what is not stored yet is scraped.          *)
ListUnseen ==
  /\ SyncAt("unseen")
  /\ sync' = [sync EXCEPT !.pc = "scrape", !.todo = Unseen(sync.todo, releases)]
  /\ UNCHANGED <<feed, releases, documents, messages, news, stops>>

ScrapeUnseen ==
  /\ SyncAt("scrape")
  /\ \E articles \in Scraped(sync.todo) :
       /\ sync' = [sync EXCEPT !.pc = "release", !.todo = articles]
       /\ Lost(sync.todo, articles)
  /\ UNCHANGED <<feed, releases, documents, messages, news>>

VariantPersistRelease ==     \* what is stored already needs nothing
  /\ SyncAt("release") /\ sync.todo # << >>
  /\ releases' = releases \cup {Head(sync.todo)}
  /\ IF IsReport(Head(sync.todo)) /\ Head(sync.todo) \notin releases
     THEN sync' = [sync EXCEPT !.pc = "document"] ELSE NextRelease
  /\ UNCHANGED <<feed, documents, messages, news, stops>>

(* _persist_articles: the release, and for a report its PDF.               *)
PersistRelease ==
  /\ SyncAt("release") /\ sync.todo # << >>
  /\ releases' = releases \cup {Head(sync.todo)}
  /\ IF IsReport(Head(sync.todo)) THEN sync' = [sync EXCEPT !.pc = "document"] ELSE NextRelease
  /\ UNCHANGED <<feed, documents, messages, news, stops>>

FinishSync ==
  /\ SyncAt("release") /\ sync.todo = << >> /\ sync' = NoSync
  /\ UNCHANGED <<feed, releases, documents, messages, news, stops>>

(* _ingest_report_pdf: a document that is stored stays; a PDF that cannot  *)
(* be downloaded or read is logged and left out.                           *)
IngestReport ==
  LET r == Head(sync.todo) IN
  /\ SyncAt("document")
  /\ \/ r \in documents /\ UNCHANGED <<documents, stops>>
     \/ r \notin documents /\ documents' = documents \cup {r} /\ UNCHANGED stops
     \/ /\ r \notin documents /\ stops < MaxStops
        /\ stops' = stops + 1 /\ UNCHANGED documents
  /\ NextRelease
  /\ UNCHANGED <<feed, releases, messages, news>>

StopSync ==
  /\ ~SyncAt("idle") /\ stops < MaxStops /\ stops' = stops + 1 /\ sync' = NoSync
  /\ UNCHANGED <<feed, releases, documents, messages, news>>

SyncStep == ListUnseen \/ ScrapeUnseen \/ PersistRelease \/ FinishSync \/ IngestReport

ReleaseNext ==
  \/ \E r \in Releases : Publish(r)
  \/ StartNews \/ NewsStep \/ StopNews
  \/ \E delta \in BOOLEAN : StartSync(delta)
  \/ SyncStep \/ StopSync

ReleaseSpec ==
  /\ ReleaseInit /\ [][ReleaseNext]_releaseVars
  /\ WF_releaseVars(StartNews) /\ WF_releaseVars(NewsStep) /\ WF_releaseVars(SyncStep)
-----------------------------------------------------------------------------
(* The scheduler starts NewsJob again and again, and it may be killed      *)
(* anywhere: a release is announced only once it is stored, and over all   *)
(* runs no more often than one notification is requested.                  *)
AnnouncedByOneRun ==
  \A r \in Releases :
    messages[r] > 0 => r \in releases /\ messages[r] <= Retries

(* Whatever NewsJob stored first, and whatever failed before: a full       *)
(* synchronisation without failures has every report it scraped.           *)
FullSyncHeals ==
  \A r \in Reports :
    (stops = MaxStops /\ SyncAt("scrape") /\ ~sync.delta /\ r \in Range(sync.todo))
      ~> r \in documents
=============================================================================
