---------------------------- MODULE SourceCopies ----------------------------
(***************************************************************************)
(* The external crawler's caches in S3.  A crawl of a page finds the files *)
(* it links to (plain HTTP files, ZIP archives, Drive files) and copies    *)
(* each into storage; what was found and what was copied is remembered and *)
(* used again while it is believed to be current.  Several workers may     *)
(* crawl the same page, which changes while they do.                       *)
(*                                                                         *)
(* Contents are named by the time the origin changed to them, which is     *)
(* also what origins report as modification time.                          *)
(***************************************************************************)
EXTENDS Integers, Sequences

CONSTANTS
  Crawlers,   \* workers crawling the page
  Sources,    \* files the page may link to
  KindOf,     \* "http", "zip" or "drive"
  Dated,      \* http and zip files whose origin reports a modification time
  PageDated,  \* the page is served with Last-Modified
  UnderRoot,  \* files found on the pages and in the Drive folders it links to
  TTL,        \* DISCOVERY_TTL
  MaxTime,    \* bound: last tick of the clock
  MaxCrawls,  \* bound: crawls in all
  None        \* no object, no cached value, no modification time

ASSUME CopiesAssumption ==
  /\ KindOf \in [Sources -> {"http", "zip", "drive"}]
  /\ Dated \subseteq Sources /\ UnderRoot \subseteq Sources /\ PageDated \in BOOLEAN
  /\ TTL \in Nat \ {0} /\ MaxTime \in Nat /\ MaxCrawls \in Nat
  /\ None \notin Int /\ None \notin [content : Nat, uploaded : Nat, late : BOOLEAN]

VARIABLES
  clock,
  page,      \* the page: [links, modified], the links including those UnderRoot
  changes,   \* per file: the times its origin changed, in order, the first being 0
  groups,    \* generations of discovered sources in storage
  manifest,  \* the discovery in use: [generation, asked, uploaded], or None; asked
             \* (auxiliary, here and below): when the origin was last asked about it
  plain,     \* per file: the object at its own key: [content, uploaded, late], or
             \* None; late (auxiliary): its origin had changed when it was uploaded
  versioned, \* objects at versioned keys: [source, version, content]
  snapshot,  \* per file: [label, object, asked, uploaded], or None
  crawl,     \* per crawler: its step and what it has read
  served,    \* per crawler: the copies its crawl has handed on
  crawls     \* auxiliary: counter for the bound

originVars == <<clock, page, changes>>
indexVars == <<groups, manifest>>
objectVars == <<plain, versioned, snapshot>>
copiesVars == <<originVars, indexVars, objectVars, crawl, served, crawls>>

Origin(s) == changes[s][Len(changes[s])]
Fresh(uploaded) == clock - uploaded < TTL

NoListing == [s \in {} |-> 0]
IdleCrawl == [step |-> "idle", listing |-> NoListing, asked |-> 0, todo |-> {}, source |-> None,
              cached |-> None, version |-> None, content |-> None, checked |-> 0, calm |-> TRUE,
              expired |-> FALSE]

CopiesInit ==
  /\ clock = 0
  /\ page \in [links : SUBSET Sources, modified : {0}]
  /\ changes = [s \in Sources |-> <<0>>]
  /\ groups = {} /\ manifest = None
  /\ plain = [s \in Sources |-> None] /\ versioned = {} /\ snapshot = [s \in Sources |-> None]
  /\ crawl = [w \in Crawlers |-> IdleCrawl]
  /\ served = [w \in Crawlers |-> {}]
  /\ crawls = 0

\* Time passes, and with it the page and the files may change.  What is found
\* below the page changes without the page.
Tick ==
  /\ clock < MaxTime
  /\ clock' = clock + 1
  /\ \E changed \in SUBSET Sources :
       changes' = [s \in Sources |-> IF s \in changed THEN Append(changes[s], clock + 1) ELSE changes[s]]
  /\ \E links \in SUBSET Sources, modified \in {page.modified, clock + 1} :
       /\ links \ UnderRoot # page.links \ UnderRoot => modified = clock + 1
       /\ page' = [links |-> links, modified |-> modified]
  /\ UNCHANGED <<indexVars, objectVars, crawl, served, crawls>>

-----------------------------------------------------------------------------
(* load_or_discover: which sources the page has.                           *)

\* An incomplete discovery counts as none.
CachedDiscovery == IF manifest # None /\ manifest.generation \in groups THEN manifest ELSE None

UseListing(w, found, calm) ==
  crawl' = [crawl EXCEPT ![w] = [IdleCrawl EXCEPT
       !.step = "copy", !.listing = found.generation, !.asked = found.asked,
       !.todo = DOMAIN found.generation, !.calm = calm, !.expired = ~Fresh(found.uploaded)]]

\* HEAD says the page changed after the discovery was stored; it is not asked
\* about what the page links to.
PageIsNewerThanNow(cached) == PageDated /\ page.modified > clock        \* mutant
PageIsNewer(cached) == PageDated /\ page.modified > cached.uploaded

LoadDiscovery(w) ==
  /\ crawl[w].step = "idle" /\ crawls < MaxCrawls
  /\ crawls' = crawls + 1
  /\ served' = [served EXCEPT ![w] = {}]
  /\ LET cached == CachedDiscovery
         discover == crawl' = [crawl EXCEPT ![w] = [IdleCrawl EXCEPT !.step = "discover", !.cached = cached]]
         use(calm) == UseListing(w, cached, calm) IN
       \/ cached = None /\ discover
       \/ cached # None /\ Fresh(cached.uploaded) /\ use(TRUE)
       \/ /\ cached # None /\ ~Fresh(cached.uploaded)
          /\ \/ PageIsNewer(cached) /\ discover
             \/ ~PageIsNewer(cached) /\ use(TRUE)
             \/ use(FALSE)  \* HEAD failed
  /\ UNCHANGED <<originVars, indexVars, objectVars>>

\* The page, the pages and the Drive folders it links to are fetched; when
\* the origin fails, what is cached is used however old it is.
Discover(w) ==
  /\ crawl[w].step = "discover"
  /\ \/ crawl' = [crawl EXCEPT ![w].step = "groups", ![w].cached = None,
                               ![w].listing = [s \in page.links |-> Origin(s)], ![w].asked = clock]
     \/ crawl[w].cached # None /\ UseListing(w, crawl[w].cached, FALSE)
  /\ UNCHANGED <<originVars, indexVars, objectVars, served, crawls>>

\* store_discovery: the groups of a new generation, then the manifest.
Discovered(w) == [generation |-> crawl[w].listing, asked |-> crawl[w].asked, uploaded |-> clock]

PutGroupsLast(w) ==                                                  \* mutant
  /\ crawl[w].step = "groups"
  /\ manifest' = Discovered(w)
  /\ crawl' = [crawl EXCEPT ![w].step = "manifest"]
  /\ UNCHANGED <<originVars, groups, objectVars, served, crawls>>
PutGroups(w) ==
  /\ crawl[w].step = "groups"
  /\ groups' = groups \cup {crawl[w].listing}
  /\ crawl' = [crawl EXCEPT ![w].step = "manifest"]
  /\ UNCHANGED <<originVars, manifest, objectVars, served, crawls>>

PutManifest(w) ==
  /\ crawl[w].step = "manifest"
  /\ manifest' = Discovered(w) /\ UseListing(w, Discovered(w), TRUE)
  /\ UNCHANGED <<originVars, groups, objectVars, served, crawls>>

-----------------------------------------------------------------------------
(* copy_source.  An object is named by its version, or OwnKey.             *)

OwnKey == -1

Stored(s, object) ==
  IF object = OwnKey THEN plain[s] # None
  ELSE \E o \in versioned : o.source = s /\ o.version = object
ContentOf(s, object) ==
  IF object = OwnKey THEN plain[s].content
  ELSE (CHOOSE o \in versioned : o.source = s /\ o.version = object).content

\* current_url: an object is current if stored no earlier than the version.
IsCurrentByContent(s, version) ==                                    \* mutant
  plain[s] # None /\ (version = None \/ version <= plain[s].uploaded)
IsCurrent(s, version) == version # None /\ plain[s] # None /\ version <= plain[s].uploaded

CachedMaterialization(s) ==
  IF snapshot[s] # None /\ Stored(s, snapshot[s].object) THEN snapshot[s] ELSE None

LateUpload(s, object) == object = OwnKey /\ plain[s].late

\* A copy that reflects the origin as it was asked about at that time, and
\* counts as fresh from the time it was stored (or found to be current).
Copy(object, asked) == [object |-> object, asked |-> asked, uploaded |-> clock]

\* It is handed on, and the next source is taken.
Serve(w, s, copy, checked, calm) ==
  /\ served' = [served EXCEPT ![w] = @ \cup
       {[source |-> s, object |-> copy.object, content |-> ContentOf(s, copy.object),
         asked |-> copy.asked, stored |-> copy.uploaded, checked |-> checked,
         calm |-> calm, late |-> LateUpload(s, copy.object)]}]
  /\ crawl' = [crawl EXCEPT ![w] = [IdleCrawl EXCEPT
       !.step = IF crawl[w].todo = {s} THEN "idle" ELSE "copy", !.listing = crawl[w].listing,
       !.asked = crawl[w].asked, !.todo = crawl[w].todo \ {s}, !.calm = crawl[w].calm,
       !.expired = crawl[w].expired]]

Go(w, s, step, cached, version) ==
  crawl' = [crawl EXCEPT ![w].step = step, ![w].source = s, ![w].cached = cached,
                         ![w].version = version, ![w].checked = clock]

\* inspect: HEAD may fail.
Inspected(s) == {None} \cup (IF s \in Dated THEN {Origin(s)} ELSE {})

CopyHttp(w, s) ==
  /\ crawl[w].step = "copy" /\ s \in crawl[w].todo /\ KindOf[s] = "http"
  /\ \E version \in Inspected(s) :
       IF IsCurrent(s, version)
         THEN Serve(w, s, Copy(OwnKey, clock), clock, TRUE)
         ELSE Go(w, s, "download", None, version) /\ UNCHANGED served
  /\ UNCHANGED <<originVars, indexVars, objectVars, crawls>>

\* store_materialized
PutSnapshot(s, label, copy) ==
  snapshot' = [snapshot EXCEPT ![s] = [label |-> label, object |-> copy.object,
                                       asked |-> copy.asked, uploaded |-> clock]]

\* A fresh snapshot of the version the listing has is used; an older one is
\* compared with the file's metadata.  Without a snapshot the version is that
\* of the listing: an object no older is used, and the origin is not asked.
CopyDrive(w, s) ==
  /\ crawl[w].step = "copy" /\ s \in crawl[w].todo /\ KindOf[s] = "drive"
  /\ LET cached == CachedMaterialization(s)
         listed == crawl[w].listing[s]
         copyByListing == Copy(OwnKey, crawl[w].asked) IN
       \/ /\ cached # None /\ Fresh(cached.uploaded) /\ cached.label = listed
          /\ Serve(w, s, cached, clock, TRUE) /\ UNCHANGED snapshot
       \/ /\ cached # None /\ ~(Fresh(cached.uploaded) /\ cached.label = listed)
          /\ \/ Serve(w, s, cached, clock, FALSE) /\ UNCHANGED snapshot  \* metadata failed
             \/ /\ cached.label = Origin(s)
                /\ PutSnapshot(s, Origin(s), Copy(cached.object, clock))
                /\ Serve(w, s, Copy(cached.object, clock), clock, TRUE)
             \/ /\ cached.label # Origin(s)
                /\ Go(w, s, "download", cached, Origin(s)) /\ UNCHANGED <<served, snapshot>>
       \/ /\ cached = None /\ IsCurrent(s, listed)
          /\ PutSnapshot(s, listed, copyByListing)
          /\ Serve(w, s, copyByListing, clock, TRUE)
       \/ /\ cached = None /\ ~IsCurrent(s, listed)
          /\ Go(w, s, "download", None, listed) /\ UNCHANGED <<served, snapshot>>
  /\ UNCHANGED <<originVars, indexVars, plain, versioned, crawls>>

\* Without validators the age of the snapshot decides, without an answer the
\* snapshot is used.
CopyZip(w, s) ==
  /\ crawl[w].step = "copy" /\ s \in crawl[w].todo /\ KindOf[s] = "zip"
  /\ LET cached == CachedMaterialization(s)
         same == IF s \in Dated THEN cached.label = Origin(s) ELSE Fresh(cached.uploaded)
         copy == IF s \in Dated THEN Copy(cached.object, clock) ELSE cached IN
       \/ cached # None /\ same /\ Serve(w, s, copy, clock, TRUE)
       \/ cached # None /\ Serve(w, s, cached, clock, FALSE)  \* HEAD failed
       \/ (cached # None => ~same) /\ Go(w, s, "download", cached, None) /\ UNCHANGED served
  /\ UNCHANGED <<originVars, indexVars, objectVars, crawls>>

\* The version of an HTTP file or archive is that of the response.
ResponseVersion(w) ==
  IF KindOf[crawl[w].source] # "drive" /\ crawl[w].source \in Dated
    THEN Origin(crawl[w].source) ELSE crawl[w].version

Download(w) ==
  /\ crawl[w].step = "download"
  /\ crawl' = [crawl EXCEPT ![w].step = "upload", ![w].content = Origin(crawl[w].source),
                            ![w].version = ResponseVersion(w)]
  /\ UNCHANGED <<originVars, indexVars, objectVars, served, crawls>>

\* A failed download is fatal unless a snapshot can be served instead.
KeepCopy(w) ==
  /\ crawl[w].step = "download" /\ crawl[w].cached # None
  /\ Serve(w, crawl[w].source, crawl[w].cached, crawl[w].checked, FALSE)
  /\ UNCHANGED <<originVars, indexVars, objectVars, crawls>>

\* Archives, and Drive files that replace a copy, go to keys of their own.
ToVersionedKey(w) ==
  \/ KindOf[crawl[w].source] = "zip"
  \/ KindOf[crawl[w].source] = "drive" /\ crawl[w].cached # None

\* store_at_key looks again for a current object before it uploads.
UploadPlain(w) ==
  /\ crawl[w].step = "upload" /\ ~ToVersionedKey(w)
  /\ LET s == crawl[w].source IN
       IF IsCurrent(s, crawl[w].version) THEN UNCHANGED plain
       ELSE plain' = [plain EXCEPT ![s] = [content |-> crawl[w].content, uploaded |-> clock,
                                           late |-> crawl[w].content # Origin(s)]]
  /\ crawl' = [crawl EXCEPT ![w].step = "stored"]
  /\ UNCHANGED <<originVars, indexVars, versioned, snapshot, served, crawls>>

\* An archive's key is new each time; here it is named by what it holds.
VersionOf(w) == IF KindOf[crawl[w].source] = "zip" THEN crawl[w].content ELSE crawl[w].version
UploadVersioned(w) ==
  /\ crawl[w].step = "upload" /\ ToVersionedKey(w)
  /\ versioned' = IF Stored(crawl[w].source, VersionOf(w)) THEN versioned
                  ELSE versioned \cup {[source |-> crawl[w].source, version |-> VersionOf(w),
                                        content |-> crawl[w].content]}
  /\ crawl' = [crawl EXCEPT ![w].step = "stored"]
  /\ UNCHANGED <<originVars, indexVars, plain, snapshot, served, crawls>>

\* store_materialized comes last.
FinishCopyRelabelled(w) ==                                           \* mutant
  /\ crawl[w].step = "stored"
  /\ LET s == crawl[w].source
         copy == Copy(IF ToVersionedKey(w) THEN VersionOf(w) ELSE OwnKey, crawl[w].checked) IN
       /\ IF KindOf[s] = "http" THEN UNCHANGED snapshot ELSE PutSnapshot(s, Origin(s), copy)
       /\ Serve(w, s, copy, crawl[w].checked, TRUE)
  /\ UNCHANGED <<originVars, indexVars, plain, versioned, crawls>>
FinishCopy(w) ==
  /\ crawl[w].step = "stored"
  /\ LET s == crawl[w].source
         copy == Copy(IF ToVersionedKey(w) THEN VersionOf(w) ELSE OwnKey, crawl[w].checked) IN
       /\ IF KindOf[s] = "http" THEN UNCHANGED snapshot ELSE PutSnapshot(s, crawl[w].version, copy)
       /\ Serve(w, s, copy, crawl[w].checked, TRUE)
  /\ UNCHANGED <<originVars, indexVars, plain, versioned, crawls>>

\* The worker dies, storage fails three times, or the crawl fails.
Abandon(w) ==
  /\ crawl[w].step # "idle"
  /\ crawl' = [crawl EXCEPT ![w] = IdleCrawl]
  /\ UNCHANGED <<originVars, indexVars, objectVars, served, crawls>>

CopiesNext ==
  \/ Tick
  \/ \E w \in Crawlers :
       \/ LoadDiscovery(w) \/ Discover(w) \/ PutGroups(w) \/ PutManifest(w)
       \/ \E s \in Sources : CopyHttp(w, s) \/ CopyDrive(w, s) \/ CopyZip(w, s)
       \/ Download(w) \/ KeepCopy(w) \/ UploadPlain(w) \/ UploadVersioned(w) \/ FinishCopy(w) \/ Abandon(w)

CopiesSpec == CopiesInit /\ [][CopiesNext]_copiesVars
-----------------------------------------------------------------------------
(* What the manifest and the snapshots refer to is in storage, whenever a  *)
(* crawl is cut short: groups before manifest, objects before snapshot.    *)
IndexesAreWhole ==
  /\ manifest # None => manifest.generation \in groups
  /\ \A s \in Sources : snapshot[s] # None => Stored(s, snapshot[s].object)

(* A snapshot is never labelled with a newer version than it holds, or the *)
(* file would not be fetched again until its next change; the exception is *)
(* an upload whose origin changed while the file was on its way.           *)
LabelsAreHonest ==
  \A s \in Sources :
    /\ snapshot[s] # None /\ snapshot[s].label # None
    /\ ~LateUpload(s, snapshot[s].object)
    => ContentOf(s, snapshot[s].object) >= snapshot[s].label

(* Whatever the caches hold, a change of the file that a copy lacks was    *)
(* made after the origin was last asked about the copy; and if nothing     *)
(* failed when the copy was handed on, it was made at most DISCOVERY_TTL   *)
(* before the crawl looked, or before the copy was stored.  (The origin is *)
(* asked when a file is looked at before it is copied, but for a Drive     *)
(* object used by the listed version when the listing was discovered:      *)
(* then nothing bounds the time from there to storing.)  The one exception *)
(* is an upload whose origin changed while the file was on its way.        *)
ServedIsRecent ==
  \A w \in Crawlers : \A r \in served[w] : \A i \in 1..Len(changes[r.source]) :
    LET change == changes[r.source][i] IN
    change > r.content /\ ~r.late =>
      /\ change > r.asked
      /\ r.calm => change + TTL > r.checked \/ change <= r.stored

(* A discovery older than DISCOVERY_TTL that a HEAD confirmed lists what   *)
(* the page itself links to, unless the page changed while it was being    *)
(* crawled.  The HEAD says nothing of the pages and the Drive folders      *)
(* below, whose files may be out of date.                                  *)
ConfirmedListingIsCurrent ==
  [][\A w \in Crawlers :
       /\ crawl[w].step = "idle" /\ crawl'[w].step = "copy" /\ crawl'[w].calm /\ crawl'[w].expired
       /\ PageDated /\ ~(manifest.asked < page.modified /\ page.modified <= manifest.uploaded)
       => (DOMAIN crawl'[w].listing) \ UnderRoot = page.links \ UnderRoot]_copiesVars

=============================================================================
