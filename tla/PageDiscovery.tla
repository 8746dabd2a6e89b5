--------------------------- MODULE PageDiscovery ---------------------------
(***************************************************************************)
(* discover_sources: the external crawler walks the pages below a page,    *)
(* depth first, and the Drive folders they link to, and lists the files of *)
(* the wanted format.  Pages and folders may link to each other in cycles. *)
(***************************************************************************)
EXTENDS Integers, Sequences, FiniteSets, SequencesExt

CONSTANTS
  Sites,     \* the sites explored; the fields of a site are described below
  Root,      \* the page crawled
  MaxDepth,  \* MAX_HTML_DEPTH
  MaxPages,  \* MAX_HTML_PAGES
  HasKey     \* GOOGLE_DRIVE_API_KEY is set

\* Links are lists, what a page or folder holds is finite, a link that says
\* it is a folder's is one, and no file is a folder.
ASSUME SitesAssumption ==
  \A s \in Sites :
    /\ \A p \in DOMAIN s.pages :
         /\ s.pages[p] \in Seq(ToSet(s.pages[p]))
         /\ IsFiniteSet(s.files[p])
         /\ s.drive[p] \in Seq([id : {s.drive[p][i].id : i \in DOMAIN s.drive[p]}, folder : BOOLEAN])
         /\ \A i \in DOMAIN s.drive[p] : s.drive[p][i].folder => s.drive[p][i].id \in DOMAIN s.folders
    /\ \A f \in DOMAIN s.folders : IsFiniteSet(s.folders[f])
    /\ s.wanted \cap DOMAIN s.folders = {}
ASSUME DepthAssumption == MaxDepth \in Nat

VARIABLES
  site,     \* pages: page -> the pages it links to, in order
            \* scope: pages with the host and below the path of the root, with
            \*        the look of a directory
            \* files: page -> the files and archives of the format it links to
            \* drive: page -> its Drive links [id, folder], in order
            \* folders: folder -> set of its entries; what is no folder is a file
            \* wanted: Drive files of the format
  pages,    \* stack of pages to visit: [page, depth]
  visited,  \* pages taken from the stack
  found,    \* the sources, in the order they were found
  pending,  \* stack of Drive links of the page being read
  folders,  \* Drive folders it led to so far
  cut,      \* auxiliary: pages with subpages taken at MaxDepth
  search    \* page, drive, done, failed

pageVars == <<site, pages, visited, found, pending, folders, cut, search>>

DiscoveryInit ==
  /\ site \in Sites
  /\ pages = <<[page |-> Root, depth |-> 0]>>
  /\ visited = {} /\ found = <<>> /\ pending = <<>> /\ folders = {} /\ cut = {}
  /\ search = "page"

Give(up) == search' = up /\ UNCHANGED <<site, pages, visited, found, pending, folders, cut>>

\* visited_sources
Known == ToSet(found)
FoundAgain(sources) == found' = found \o SetToSeq(sources)           \* mutant
Found(sources) == found' = found \o SetToSeq(sources \ Known)

\* Links that are neither files nor archives lead on, if they stay below the root.
\* (SelectSeq written out, for it has no axioms to prove from.)
InScope(page) == page \in site.scope
LinksInScope(page) ==
  LET links == site.pages[page]
      kept[i \in 0..Len(links)] ==
        IF i = 0 THEN <<>>
        ELSE IF InScope(links[i]) THEN Append(kept[i - 1], links[i]) ELSE kept[i - 1]
  IN kept[Len(links)]
Subpages(page, depth) ==
  IF depth >= MaxDepth THEN <<>>
  ELSE [i \in 1..Len(LinksInScope(page)) |->
          [page |-> LinksInScope(page)[i], depth |-> depth + 1]]

Top == Last(pages)

SkipPage ==
  /\ search = "page" /\ pages # <<>> /\ Top.page \in visited
  /\ pages' = Front(pages)
  /\ UNCHANGED <<site, visited, found, pending, folders, cut, search>>

\* The page does not answer with HTML; the root was read before.
SkipOther ==
  /\ search = "page" /\ pages # <<>> /\ Top.page \notin visited /\ Top.page # Root
  /\ Cardinality(visited) < MaxPages
  /\ Top.page \notin DOMAIN site.pages
  /\ visited' = visited \cup {Top.page} /\ pages' = Front(pages)
  /\ UNCHANGED <<site, found, pending, folders, cut, search>>

ReadPage ==
  /\ search = "page" /\ pages # <<>> /\ Top.page \notin visited
  /\ Cardinality(visited) < MaxPages /\ Top.page \in DOMAIN site.pages
  /\ visited' = visited \cup {Top.page}
  /\ Found(site.files[Top.page])
  /\ pages' = Front(pages) \o Subpages(Top.page, Top.depth)
  /\ cut' = IF Top.depth >= MaxDepth /\ LinksInScope(Top.page) # <<>> THEN cut \cup {Top.page} ELSE cut
  /\ pending' = site.drive[Top.page] /\ folders' = {}
  /\ search' = IF pending' = <<>> THEN "page" ELSE IF HasKey THEN "drive" ELSE "failed"
  /\ UNCHANGED site

TooManyPages ==
  /\ search = "page" /\ pages # <<>> /\ Top.page \notin visited
  /\ Cardinality(visited) >= MaxPages /\ Give("failed")

\* A request for a page fails, or its HTML cannot be archived.
PageFails ==
  /\ search = "page" /\ pages # <<>> /\ Top.page \notin visited \cup {Root} /\ Give("failed")

FinishDiscovery == search = "page" /\ pages = <<>> /\ Give("done")

-----------------------------------------------------------------------------
(* collect_drive_files                                                     *)

Link == Last(pending)
IsFolder(id) == id \in DOMAIN site.folders
Entries(id) == IF IsFolder(id) THEN site.folders[id] ELSE {}
FolderLinks(ids) == LET s == SetToSeq(ids) IN [i \in 1..Len(s) |-> [id |-> s[i], folder |-> TRUE]]

\* Folders are opened in their turn, files of the format are collected.
Collect(entries) ==
  /\ pending' = Front(pending) \o FolderLinks({e \in entries : IsFolder(e)})
  /\ Found({e \in entries : ~IsFolder(e) /\ e \in site.wanted})

OpenFolderAnew ==                                                    \* mutant
  /\ search = "drive" /\ pending # <<>> /\ Link.folder
  /\ Collect(Entries(Link.id))
  /\ UNCHANGED <<site, pages, visited, folders, cut, search>>
OpenFolder ==
  /\ search = "drive" /\ pending # <<>> /\ Link.folder
  /\ Collect(IF Link.id \in folders THEN {} ELSE Entries(Link.id))
  /\ folders' = folders \cup {Link.id}
  /\ UNCHANGED <<site, pages, visited, cut, search>>

\* A link that does not say it is a folder's may turn out to be.
OpenFile ==
  /\ search = "drive" /\ pending # <<>> /\ ~Link.folder
  /\ Collect({Link.id})
  /\ UNCHANGED <<site, pages, visited, folders, cut, search>>

\* Drive refuses a request, or says that a folder's listing is incomplete.
DriveFails == search = "drive" /\ pending # <<>> /\ Give("failed")

FinishPage == search = "drive" /\ pending = <<>> /\ Give("page")

DiscoveryNext ==
  \/ SkipPage \/ SkipOther \/ ReadPage \/ TooManyPages \/ PageFails \/ FinishDiscovery
  \/ OpenFolder \/ OpenFile \/ DriveFails \/ FinishPage

DiscoverySpec == DiscoveryInit /\ [][DiscoveryNext]_pageVars /\ WF_pageVars(DiscoveryNext)
-----------------------------------------------------------------------------
(* What discovery should find: the sources of every page and folder that   *)
(* links lead to from the root.                                            *)

\* The least set that has the start and whatever its members lead to.
Closed(S, next(_)) == \A x \in S : next(x) \subseteq S
Closure(universe, start, next(_)) ==
  {x \in universe : \A S \in SUBSET universe : start \subseteq S /\ Closed(S, next) => x \in S}

PagesBelow(page) == IF page \in DOMAIN site.pages THEN ToSet(site.pages[page]) \cap site.scope ELSE {}
LinkedPages == Closure({Root} \cup site.scope, {Root}, PagesBelow)
ReachablePages == LinkedPages \cap DOMAIN site.pages

DriveIds(page) == {site.drive[page][i].id : i \in DOMAIN site.drive[page]}
OnDrive(page) ==
  Closure(DriveIds(page) \cup UNION {site.folders[f] : f \in DOMAIN site.folders}, DriveIds(page), Entries)
ReachableOnDrive(page) == OnDrive(page) \cap site.wanted
AllSources == UNION {site.files[p] \cup ReachableOnDrive(p) : p \in ReachablePages}

(* No source is listed twice, or its child would be ingested twice, and    *)
(* none is missed: but for a page reached at MAX_HTML_DEPTH first, discovery*)
(* finds what there is, in whatever order pages and folders come.          *)
DiscoveryIsExact ==
  /\ Len(found) = Cardinality(Known) /\ Known \subseteq AllSources
  /\ search = "done" /\ cut = {} => Known = AllSources

(* Discovery ends, though pages and folders link to each other.            *)
DiscoveryEnds == <>(search \in {"done", "failed"})
=============================================================================
