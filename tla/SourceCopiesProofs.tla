------------------------- MODULE SourceCopiesProofs -------------------------
(***************************************************************************)
(* Proofs about SourceCopies: for any number of crawlers, files and        *)
(* changes, and any times at which a crawl is cut short.                   *)
(***************************************************************************)
EXTENDS SourceCopies, SequenceTheorems, TLAPS

\* All versions a file has had.
Past(s) == {changes[s][i] : i \in 1..Len(changes[s])}

Listings == UNION {[S -> Nat] : S \in SUBSET Sources}
Known(g) == DOMAIN g \subseteq Sources /\ \A s \in DOMAIN g : g[s] \in Past(s)
KnownListings == {g \in Listings : Known(g)}

Manifest == [generation : Listings, asked : Nat, uploaded : Nat]
Plain == [content : Nat, uploaded : Nat, late : BOOLEAN]
Versioned == [source : Sources, version : Nat, content : Nat]
Label == Nat \cup {None}
Snapshot == [label : Label, object : Nat \cup {OwnKey}, asked : Nat, uploaded : Nat]
Steps == {"idle", "discover", "groups", "manifest", "copy", "download", "upload", "stored"}
CrawlRecord ==
  [step : Steps, listing : Listings, asked : Nat, todo : SUBSET Sources, source : Sources \cup {None},
   cached : Manifest \cup Snapshot \cup {None}, version : Label, content : Label,
   checked : Nat, calm : BOOLEAN, expired : BOOLEAN]

\* What may be written into a snapshot: an object that is there, and a label
\* that is no newer than what it holds.
Honest(s, label, o) ==
  /\ Stored(s, o)
  /\ label # None => /\ label \in Past(s)
                     /\ IF o = OwnKey THEN plain[s].late \/ label <= plain[s].content ELSE label <= o
\* A content that has all the changes made until t, and an object with such
\* a content unless its origin changed while it was on its way.
Recent(s, content, t) == \A p \in Past(s) : p <= t => p <= content
Good(s, o, t) == Stored(s, o) /\ (LateUpload(s, o) \/ Recent(s, ContentOf(s, o), t))

\* Snapshots of objects that are as recent as they were asked about, and
\* listings of versions the files had when they were.
HonestSnapshots(s) ==
  {c \in Snapshot : /\ Honest(s, c.label, c.object) /\ Good(s, c.object, c.asked)
                    /\ c.asked <= c.uploaded /\ c.uploaded <= clock}
AskedAt(g, t) == t <= clock /\ Known(g) /\ \A s \in DOMAIN g : Recent(s, g[s], t)
Found == {m \in Manifest : AskedAt(m.generation, m.asked)}

\* The key a crawler uploads to.
NewKey(r) == KindOf[r.source] = "zip" \/ (KindOf[r.source] = "drive" /\ r.cached # None)
Key(r) == IF NewKey(r) THEN IF KindOf[r.source] = "zip" THEN r.content ELSE r.version ELSE OwnKey

CrawlSound(r) ==
  /\ AskedAt(r.listing, r.asked) /\ r.todo \subseteq DOMAIN r.listing
  /\ r.step = "manifest" => r.listing \in groups
  /\ r.step = "discover" => r.todo = {} /\ (r.cached # None => r.cached \in Found)
  /\ r.step \in {"download", "upload", "stored"} =>
       /\ r.source \in Sources
       /\ r.version # None => r.version \in Past(r.source)
       /\ KindOf[r.source] = "drive" => r.version # None
       /\ r.checked <= clock
       /\ r.cached # None => r.cached \in HonestSnapshots(r.source)
       /\ KindOf[r.source] = "drive" /\ r.cached # None => Recent(r.source, r.version, r.checked)
       /\ ~NewKey(r) /\ IsCurrent(r.source, r.version) =>
            plain[r.source].late \/ Recent(r.source, plain[r.source].content, r.checked)
  /\ r.step \in {"upload", "stored"} =>
       /\ r.content \in Past(r.source)
       /\ r.version # None => r.version <= r.content
       /\ Recent(r.source, r.content, r.checked)
  /\ r.step = "stored" => Honest(r.source, r.version, Key(r)) /\ Good(r.source, Key(r), r.checked)

SoundCrawls == {r \in CrawlRecord : CrawlSound(r)}

TimeOK ==
  /\ clock \in Nat /\ page.links \subseteq Sources /\ page.modified \in Nat
  /\ changes \in [Sources -> Seq(Nat)]
  /\ \A s \in Sources : /\ Len(changes[s]) > 0
                        /\ \A t \in Past(s) : t <= Origin(s) /\ t <= clock
IndexOK ==
  /\ groups \subseteq KnownListings
  /\ manifest # None => manifest \in Found /\ manifest.generation \in groups
PlainOK ==
  /\ plain \in [Sources -> {None} \cup Plain]
  /\ \A s \in Sources : plain[s] # None =>
       /\ plain[s].uploaded <= clock
       /\ ~plain[s].late => \A t \in Past(s) : t <= plain[s].uploaded => t <= plain[s].content
VersionedOK ==
  /\ versioned \subseteq Versioned
  /\ \A o \in versioned : o.version <= o.content
  /\ \A o, q \in versioned : o.source = q.source /\ o.version = q.version => o = q
SnapshotsOK ==
  /\ DOMAIN snapshot = Sources /\ snapshot = [s \in Sources |-> snapshot[s]]
  /\ \A s \in Sources : snapshot[s] \in {None} \cup HonestSnapshots(s)
CrawlsOK == crawl \in [Crawlers -> SoundCrawls]

CopiesInv == TimeOK /\ IndexOK /\ PlainOK /\ VersionedOK /\ SnapshotsOK /\ CrawlsOK

-----------------------------------------------------------------------------
(* Time and origins.                                                       *)
LEMMA OriginIsPast ==
  ASSUME TimeOK, NEW s \in Sources
  PROVE  Origin(s) \in Past(s) /\ Past(s) \subseteq Nat /\ Origin(s) \in Nat
<1>1. changes[s] \in Seq(Nat) /\ Len(changes[s]) \in Nat /\ Len(changes[s]) \in 1..Len(changes[s])
  BY LenProperties DEF TimeOK
<1>2. \A i \in 1..Len(changes[s]) : changes[s][i] \in Nat
  BY <1>1, ElementOfSeq
<1> QED BY <1>1, <1>2 DEF Origin, Past

LEMMA NoneIsNoNumber == None \notin Nat /\ None \notin Plain
  BY CopiesAssumption DEF Plain

LEMMA IdleIsSound == ASSUME TimeOK PROVE IdleCrawl \in SoundCrawls
<1>1. NoListing \in Listings /\ DOMAIN NoListing = {}
  <2>1. NoListing \in [{} -> Nat] /\ DOMAIN NoListing = {}
    BY DEF NoListing
  <2> QED BY <2>1 DEF Listings
<1>2. IdleCrawl \in CrawlRecord
  BY <1>1 DEF IdleCrawl, CrawlRecord, Label, Steps
<1>3. CrawlSound(IdleCrawl)
  <2>1. IdleCrawl.asked = 0 /\ 0 <= clock
    BY DEF IdleCrawl, TimeOK
  <2>2. AskedAt(IdleCrawl.listing, IdleCrawl.asked)
    BY <1>1, <2>1 DEF AskedAt, IdleCrawl, Known
  <2> QED BY <1>1, <2>2 DEF CrawlSound, IdleCrawl
<1> QED BY <1>2, <1>3 DEF SoundCrawls

(* What the origins have had stays, what storage has stays or is replaced  *)
(* by something as new as the origin: the facts a step may rely on grow.   *)
Grows ==
  /\ clock \in Nat /\ clock' \in Nat /\ clock <= clock'
  /\ \A s \in Sources : Past(s)' \subseteq Nat /\ Past(s) \subseteq Past(s)'
  /\ \A s \in Sources : \A p \in Past(s)' : p \in Past(s) \/ ~(p <= clock)
  /\ versioned \subseteq versioned' /\ groups \subseteq groups' /\ VersionedOK /\ VersionedOK'
  /\ \A s \in Sources : plain'[s] = plain[s]
       \/ (plain'[s] # None /\ (plain'[s].late \/ \A t \in Past(s) : t <= plain'[s].content))

LEMMA KnownStays == ASSUME Grows, NEW g, Known(g) PROVE Known(g)'
  BY DEF Grows, Known

LEMMA HonestStays ==
  ASSUME Grows, NEW s \in Sources, NEW l, NEW o, Honest(s, l, o) PROVE Honest(s, l, o)'
<1>1. Stored(s, o)'
  BY DEF Grows, Honest, Stored
<1>2. ASSUME l # None PROVE /\ l \in Past(s)'
                            /\ IF o = OwnKey THEN plain'[s].late \/ l <= plain'[s].content ELSE l <= o
  BY <1>2 DEF Grows, Honest
<1> QED BY <1>1, <1>2 DEF Honest

\* An object at a key of its own is the only one.
LEMMA OnlyOne ==
  ASSUME NEW V, NEW s, NEW o, NEW x \in V, x.source = s, x.version = o,
         \A a, b \in V : a.source = b.source /\ a.version = b.version => a = b
  PROVE  (CHOOSE q \in V : q.source = s /\ q.version = o) = x
  OBVIOUS

LEMMA ContentIs ==
  ASSUME NEW s, NEW o \in Nat, NEW x, x.source = s, x.version = o
  PROVE  /\ VersionedOK /\ x \in versioned => ContentOf(s, o) = x.content
         /\ VersionedOK' /\ x \in versioned' => ContentOf(s, o)' = x.content
<1>1. o # OwnKey
  BY DEF OwnKey
<1> QED BY <1>1, OnlyOne DEF ContentOf, VersionedOK

LEMMA RecentStays ==
  ASSUME Grows, NEW s \in Sources, NEW content, NEW t \in Nat, t <= clock, Recent(s, content, t)
  PROVE  Recent(s, content, t)'
<1>1. ASSUME NEW p \in Past(s)', p <= t PROVE p <= content
  <2>1. p \in Past(s) \/ ~(p <= clock)
    BY DEF Grows
  <2>2. p \in Past(s)
    BY <1>1, <2>1 DEF Grows
  <2> QED BY <1>1, <2>2 DEF Recent
<1> QED BY <1>1 DEF Recent

LEMMA GoodStays ==
  ASSUME Grows, NEW s \in Sources, NEW o \in Nat \cup {OwnKey}, NEW t \in Nat, t <= clock, Good(s, o, t)
  PROVE  Good(s, o, t)'
<1>1. Stored(s, o)'
  BY DEF Grows, Good, Stored
<1>2. CASE o = OwnKey /\ plain'[s] = plain[s]
  <2>1. LateUpload(s, o) \/ Recent(s, plain[s].content, t)'
    BY <1>2, RecentStays DEF Good, ContentOf
  <2> QED BY <1>1, <1>2, <2>1 DEF Good, LateUpload, ContentOf
<1>3. CASE o = OwnKey /\ (plain'[s].late \/ \A p \in Past(s) : p <= plain'[s].content)
  <2>1. ASSUME \A p \in Past(s) : p <= plain'[s].content, NEW p \in Past(s)', p <= t
        PROVE  p <= plain'[s].content
    <3>1. p \in Past(s) \/ ~(p <= clock)
      BY DEF Grows
    <3> QED BY <2>1, <3>1 DEF Grows
  <2>2. plain'[s].late \/ \A p \in Past(s)' : p <= t => p <= plain'[s].content
    BY <1>3, <2>1
  <2> QED BY <1>1, <1>3, <2>2 DEF Good, LateUpload, ContentOf, Recent
<1>4. CASE o # OwnKey
  <2>1. PICK x \in versioned : x.source = s /\ x.version = o
    BY <1>4 DEF Good, Stored
  <2>2. ContentOf(s, o) = x.content /\ ContentOf(s, o)' = x.content
    <3>1. o \in Nat /\ x \in versioned'
      BY <1>4, <2>1 DEF Grows
    <3> QED BY <2>1, <3>1, ContentIs DEF Grows
  <2>3. Recent(s, x.content, t)'
    BY <1>4, <2>2, RecentStays DEF Good, LateUpload
  <2> QED BY <1>1, <2>2, <2>3 DEF Good
<1> QED BY <1>2, <1>3, <1>4 DEF Grows

LEMMA HonestSnapshotsStay ==
  ASSUME Grows, NEW s \in Sources PROVE HonestSnapshots(s) \subseteq HonestSnapshots(s)'
<1> SUFFICES ASSUME NEW c \in Snapshot, Honest(s, c.label, c.object), Good(s, c.object, c.asked),
                    c.asked <= c.uploaded, c.uploaded <= clock
             PROVE  /\ Honest(s, c.label, c.object)' /\ Good(s, c.object, c.asked)'
                    /\ c.uploaded <= clock'
  BY DEF HonestSnapshots
<1>1. /\ c.object \in Nat \cup {OwnKey} /\ c.asked \in Nat /\ c.uploaded \in Nat /\ clock \in Nat
      /\ clock' \in Nat /\ clock <= clock'
  BY DEF Snapshot, Grows
<1>2. c.asked <= clock /\ c.uploaded <= clock'
  BY <1>1
<1>3. Good(s, c.object, c.asked)'
  BY <1>1, <1>2, GoodStays
<1> QED BY <1>2, <1>3, HonestStays

LEMMA AskedStays == ASSUME Grows, NEW g, NEW t \in Nat, AskedAt(g, t) PROVE AskedAt(g, t)'
<1>1. Known(g)' /\ DOMAIN g \subseteq Sources /\ t <= clock
  BY KnownStays DEF AskedAt, Known
<1>2. t <= clock'
  BY <1>1 DEF Grows
<1>3. ASSUME NEW s \in DOMAIN g PROVE Recent(s, g[s], t)'
  BY <1>1, RecentStays DEF AskedAt
<1> QED BY <1>1, <1>2, <1>3 DEF AskedAt

LEMMA FoundStays == ASSUME Grows PROVE Found \subseteq Found'
  BY AskedStays DEF Found, Manifest

LEMMA SoundStays == ASSUME Grows PROVE SoundCrawls \subseteq SoundCrawls'
<1> SUFFICES ASSUME NEW r \in CrawlRecord, CrawlSound(r) PROVE CrawlSound(r)'
  BY DEF SoundCrawls
<1>1. AskedAt(r.listing, r.asked)' /\ Found \subseteq Found'
  BY AskedStays, FoundStays DEF CrawlSound, CrawlRecord
<1>2. ASSUME r.step = "stored"
      PROVE  Honest(r.source, r.version, Key(r))' /\ Good(r.source, Key(r), r.checked)'
  <2>1. /\ r.source \in Sources /\ Honest(r.source, r.version, Key(r)) /\ Good(r.source, Key(r), r.checked)
        /\ r.checked \in Nat /\ r.checked <= clock
    BY <1>2 DEF CrawlSound, CrawlRecord
  <2>2. Key(r) \in Nat \cup {OwnKey}
    BY <1>2, <2>1 DEF CrawlSound, Key, NewKey, Grows
  <2> QED BY <2>1, <2>2, HonestStays, GoodStays
<1>3. ASSUME r.step \in {"download", "upload", "stored"}
      PROVE  /\ Past(r.source) \subseteq Past(r.source)'
             /\ r.checked <= clock'
             /\ r.cached # None => r.cached \in HonestSnapshots(r.source)'
             /\ KindOf[r.source] = "drive" /\ r.cached # None => Recent(r.source, r.version, r.checked)'
             /\ ~NewKey(r) /\ IsCurrent(r.source, r.version)' =>
                  (plain[r.source].late \/ Recent(r.source, plain[r.source].content, r.checked))'
  <2>1. /\ r.source \in Sources /\ r.checked \in Nat /\ r.checked <= clock /\ clock \in Nat
        /\ clock' \in Nat /\ clock <= clock'
    BY <1>3 DEF CrawlSound, CrawlRecord, Grows
  <2>2. /\ KindOf[r.source] = "drive" /\ r.cached # None => Recent(r.source, r.version, r.checked)'
        /\ r.cached # None => r.cached \in HonestSnapshots(r.source)'
    BY <1>3, <2>1, RecentStays, HonestSnapshotsStay DEF CrawlSound
  <2>3. ASSUME ~NewKey(r), IsCurrent(r.source, r.version)'
        PROVE  (plain[r.source].late \/ Recent(r.source, plain[r.source].content, r.checked))'
    <3>1. CASE plain'[r.source] = plain[r.source]
      <4>1. IsCurrent(r.source, r.version)
        BY <2>3, <3>1 DEF IsCurrent
      <4>2. plain[r.source].late \/ Recent(r.source, plain[r.source].content, r.checked)
        BY <1>3, <2>3, <4>1 DEF CrawlSound
      <4>3. Recent(r.source, plain[r.source].content, r.checked) =>
              \A p \in Past(r.source)' : p <= r.checked => p <= plain[r.source].content
        BY <2>1, RecentStays DEF Recent
      <4> QED BY <3>1, <4>2, <4>3 DEF Recent
    <3>2. CASE plain'[r.source].late \/ \A p \in Past(r.source) : p <= plain'[r.source].content
      <4>1. ASSUME \A p \in Past(r.source) : p <= plain'[r.source].content,
                   NEW p \in Past(r.source)', p <= r.checked
            PROVE  p <= plain'[r.source].content
        <5>1. p \in Past(r.source) \/ ~(p <= clock)
          BY <2>1 DEF Grows
        <5>2. p \in Nat
          BY <2>1 DEF Grows
        <5> QED BY <2>1, <4>1, <5>1, <5>2
      <4> QED BY <3>2, <4>1 DEF Recent
    <3> QED BY <2>1, <3>1, <3>2 DEF Grows
  <2> QED BY <2>1, <2>2, <2>3 DEF Grows
<1>4. ASSUME r.step \in {"upload", "stored"} PROVE Recent(r.source, r.content, r.checked)'
  <2>1. /\ r.source \in Sources /\ r.checked \in Nat /\ r.checked <= clock
        /\ Recent(r.source, r.content, r.checked)
    BY <1>4 DEF CrawlSound, CrawlRecord
  <2> QED BY <2>1, RecentStays
<1> QED BY <1>1, <1>2, <1>3, <1>4 DEF CrawlSound, Grows

(* One crawler's new record, while the facts the others rely on stay.      *)
LEMMA OneCrawler ==
  ASSUME CrawlsOK, Grows, NEW w \in Crawlers, NEW r, crawl' = [crawl EXCEPT ![w] = r],
         r \in SoundCrawls'
  PROVE  CrawlsOK'
  BY SoundStays DEF CrawlsOK

(* The facts grow when no file and no origin is touched.                   *)
LEMMA StorageGrows ==
  ASSUME TimeOK, VersionedOK, VersionedOK', UNCHANGED <<clock, changes>>,
         groups \subseteq groups', versioned \subseteq versioned',
         \A s \in Sources : plain'[s] = plain[s]
           \/ (plain'[s] # None /\ (plain'[s].late \/ \A t \in Past(s) : t <= plain'[s].content))
  PROVE  Grows
<1>1. \A s \in Sources : Past(s)' = Past(s)
  BY DEF Past
<1>2. clock \in Nat /\ clock' = clock /\ clock <= clock
  BY DEF TimeOK
<1>3. \A s \in Sources : Past(s) \subseteq Nat
  BY OriginIsPast
<1> QED BY <1>1, <1>2, <1>3 DEF Grows

LEMMA NothingTouched ==
  ASSUME TimeOK, VersionedOK, UNCHANGED <<clock, changes, groups, plain, versioned>> PROVE Grows
  BY StorageGrows DEF VersionedOK

LEMMA SnapshotsStay == ASSUME SnapshotsOK, Grows, UNCHANGED snapshot PROVE SnapshotsOK'
  BY HonestSnapshotsStay DEF SnapshotsOK

LEMMA IndexStays ==
  ASSUME IndexOK, Grows, UNCHANGED indexVars PROVE IndexOK'
  BY KnownStays, FoundStays DEF IndexOK, KnownListings, indexVars

LEMMA OriginStays == ASSUME TimeOK, UNCHANGED originVars PROVE TimeOK'
  BY DEF TimeOK, originVars, Past, Origin

LEMMA PlainStays == ASSUME PlainOK, UNCHANGED <<originVars, plain>> PROVE PlainOK'
  BY DEF PlainOK, originVars, Past

LEMMA VersionedStays == ASSUME VersionedOK, UNCHANGED versioned PROVE VersionedOK'
  BY DEF VersionedOK

(* Steps that change only what a crawler knows.                            *)
LEMMA OnlyCrawl ==
  ASSUME CopiesInv, UNCHANGED <<originVars, indexVars, plain, versioned, snapshot>>,
         NEW w \in Crawlers, NEW r \in SoundCrawls, crawl' = [crawl EXCEPT ![w] = r]
  PROVE  CopiesInv' /\ Grows
<1>1. Grows
  BY NothingTouched DEF originVars, indexVars, CopiesInv
<1>2. r \in SoundCrawls'
  BY <1>1, SoundStays
<1> QED BY <1>1, <1>2, OneCrawler, SnapshotsStay, IndexStays, OriginStays, PlainStays, VersionedStays
        DEF CopiesInv, originVars, indexVars

-----------------------------------------------------------------------------
(* The records a crawler goes on with.                                     *)
LEMMA ACrawl ==
  ASSUME CopiesInv, NEW w \in Crawlers
  PROVE  /\ crawl[w] \in CrawlRecord /\ CrawlSound(crawl[w]) /\ crawl[w].listing \in Listings
         /\ clock \in Nat
  BY DEF CopiesInv, CrawlsOK, SoundCrawls, TimeOK, CrawlRecord

LEMMA UsingIsSound ==
  ASSUME CopiesInv, NEW w \in Crawlers, NEW found \in Found, NEW calm \in BOOLEAN,
         UseListing(w, found, calm)
  PROVE  \E r \in SoundCrawls : crawl' = [crawl EXCEPT ![w] = r]
<1> DEFINE expired == ~Fresh(found.uploaded)
           g == found.generation
           r == [IdleCrawl EXCEPT !.step = "copy", !.listing = g, !.asked = found.asked,
                   !.todo = DOMAIN g, !.calm = calm, !.expired = expired]
<1>1. /\ g \in Listings /\ found.asked \in Nat /\ AskedAt(g, found.asked) /\ DOMAIN g \subseteq Sources
      /\ expired \in BOOLEAN
  BY DEF Found, Manifest, AskedAt, Known
<1>2. IdleCrawl \in CrawlRecord
  BY IdleIsSound DEF SoundCrawls, CopiesInv
<1>3. crawl' = [crawl EXCEPT ![w] = r]
  BY DEF UseListing
<1> HIDE DEF expired, g
<1>4. /\ r \in CrawlRecord /\ r.step = "copy" /\ r.listing = g /\ r.asked = found.asked
      /\ r.todo = DOMAIN g
  BY <1>1, <1>2 DEF CrawlRecord, Steps
<1> HIDE DEF r
<1>5. CrawlSound(r)
  BY <1>1, <1>4 DEF CrawlSound
<1> QED BY <1>3, <1>4, <1>5 DEF SoundCrawls

LEMMA ServingIsSound ==
  ASSUME CopiesInv, NEW w \in Crawlers, NEW s, NEW copy, NEW checked, NEW calm,
         Serve(w, s, copy, checked, calm)
  PROVE  \E r \in SoundCrawls : crawl' = [crawl EXCEPT ![w] = r]
<1> DEFINE r == [IdleCrawl EXCEPT
       !.step = IF crawl[w].todo = {s} THEN "idle" ELSE "copy", !.listing = crawl[w].listing,
       !.asked = crawl[w].asked, !.todo = crawl[w].todo \ {s}, !.calm = crawl[w].calm,
       !.expired = crawl[w].expired]
<1>1. crawl[w] \in CrawlRecord /\ CrawlSound(crawl[w])
  BY ACrawl
<1>2. IdleCrawl \in CrawlRecord
  BY IdleIsSound DEF SoundCrawls, CopiesInv
<1>3. /\ r \in CrawlRecord /\ r.step \in {"idle", "copy"}
      /\ r.listing = crawl[w].listing /\ r.asked = crawl[w].asked /\ r.todo = crawl[w].todo \ {s}
  <2> DEFINE step == IF crawl[w].todo = {s} THEN "idle" ELSE "copy"
             todo == crawl[w].todo \ {s}
  <2>1. /\ crawl[w].listing \in Listings /\ todo \in SUBSET Sources /\ step \in {"idle", "copy"}
        /\ crawl[w].asked \in Nat /\ crawl[w].calm \in BOOLEAN /\ crawl[w].expired \in BOOLEAN
    BY <1>1 DEF CrawlRecord
  <2>2. r = [IdleCrawl EXCEPT !.step = step, !.listing = crawl[w].listing, !.asked = crawl[w].asked,
                              !.todo = todo, !.calm = crawl[w].calm, !.expired = crawl[w].expired]
    OBVIOUS
  <2> HIDE DEF step, todo, r
  <2>3. /\ r \in CrawlRecord /\ r.step = step /\ r.listing = crawl[w].listing /\ r.todo = todo
        /\ r.asked = crawl[w].asked
    BY <1>2, <2>1, <2>2 DEF CrawlRecord, Steps
  <2> QED BY <2>1, <2>3 DEF todo
<1>4. crawl' = [crawl EXCEPT ![w] = r]
  BY DEF Serve
<1> HIDE DEF r
<1>5. CrawlSound(r)
  BY <1>1, <1>3 DEF CrawlSound
<1> QED BY <1>3, <1>4, <1>5 DEF SoundCrawls

LEMMA GoingIsSound ==
  ASSUME CopiesInv, NEW w \in Crawlers, NEW s \in Sources, NEW cached \in HonestSnapshots(s) \cup {None},
         NEW version \in Label, Go(w, s, "download", cached, version),
         version # None => version \in Past(s), KindOf[s] = "drive" => version # None,
         KindOf[s] = "drive" /\ cached # None => version = Origin(s),
         KindOf[s] # "zip" /\ (KindOf[s] = "drive" => cached = None) => ~IsCurrent(s, version)
  PROVE  \E r \in SoundCrawls : crawl' = [crawl EXCEPT ![w] = r]
<1> DEFINE r == [crawl[w] EXCEPT !.step = "download", !.source = s, !.cached = cached,
                                 !.version = version, !.checked = clock]
<1>1. crawl[w] \in CrawlRecord /\ CrawlSound(crawl[w]) /\ clock \in Nat
  BY ACrawl
<1>2. /\ r \in CrawlRecord /\ r.step = "download" /\ r.source = s /\ r.version = version
      /\ r.listing = crawl[w].listing /\ r.asked = crawl[w].asked /\ r.todo = crawl[w].todo
      /\ r.cached = cached /\ r.checked = clock
  BY <1>1 DEF CrawlRecord, Steps, HonestSnapshots
<1>3. crawl' = [crawl EXCEPT ![w] = r]
  BY DEF Go
<1> HIDE DEF r
<1>4. CrawlSound(r)
  <2>1. KindOf[s] = "drive" /\ cached # None => Recent(s, version, clock)
    BY DEF CopiesInv, TimeOK, Recent
  <2>2. ~NewKey(r) => ~IsCurrent(s, version)
    BY <1>2, CopiesAssumption DEF NewKey
  <2>3. clock <= clock
    BY <1>1
  <2> QED BY <1>1, <1>2, <2>1, <2>2, <2>3 DEF CrawlSound
<1> QED BY <1>2, <1>3, <1>4 DEF SoundCrawls

(* A snapshot is kept only if it is whole.                                 *)
LEMMA CachedIsSnapshot ==
  ASSUME CopiesInv, NEW s \in Sources, CachedMaterialization(s) # None
  PROVE  /\ CachedMaterialization(s) = snapshot[s] /\ snapshot[s] \in HonestSnapshots(s)
         /\ snapshot[s] \in Snapshot /\ Honest(s, snapshot[s].label, snapshot[s].object)
  BY DEF CachedMaterialization, CopiesInv, SnapshotsOK, HonestSnapshots

LEMMA CachedType ==
  ASSUME CopiesInv, NEW s \in Sources PROVE CachedMaterialization(s) \in HonestSnapshots(s) \cup {None}
  BY CachedIsSnapshot

\* A copy as recent as it was asked about.
Worth(s, copy) ==
  /\ copy.object \in Nat \cup {OwnKey} /\ copy.asked \in Nat /\ copy.uploaded \in Nat
  /\ copy.asked <= clock /\ Good(s, copy.object, copy.asked)

(* A new snapshot beside the others.                                       *)
LEMMA PuttingSnapshot ==
  ASSUME CopiesInv, NEW s \in Sources, NEW label \in Label, NEW copy, Worth(s, copy),
         Honest(s, label, copy.object), PutSnapshot(s, label, copy), Grows, clock' = clock
  PROVE  SnapshotsOK'
<1> DEFINE c == [label |-> label, object |-> copy.object, asked |-> copy.asked, uploaded |-> clock]
<1>1. /\ c \in Snapshot /\ c.label = label /\ c.object = copy.object /\ c.asked = copy.asked
      /\ c.uploaded = clock /\ clock \in Nat
  BY DEF CopiesInv, TimeOK, Snapshot, Worth
<1>2. snapshot' = [snapshot EXCEPT ![s] = c]
  BY DEF PutSnapshot
<1> HIDE DEF c
<1>3. c \in HonestSnapshots(s)'
  <2>1. c \in HonestSnapshots(s)
    BY <1>1 DEF HonestSnapshots, Worth
  <2> QED BY <2>1, HonestSnapshotsStay
<1>4. \A x \in Sources : snapshot[x] \in {None} \cup HonestSnapshots(x)'
  BY HonestSnapshotsStay DEF CopiesInv, SnapshotsOK
<1>5. \A x \in Sources : snapshot'[x] \in {None} \cup HonestSnapshots(x)'
  BY <1>2, <1>3, <1>4 DEF CopiesInv, SnapshotsOK
<1> QED BY <1>2, <1>5 DEF CopiesInv, SnapshotsOK

\* The object at its own key holds what is current when it counts as current.
LEMMA CurrentIsHonest ==
  ASSUME CopiesInv, NEW s \in Sources, NEW version \in Past(s), IsCurrent(s, version)
  PROVE  Honest(s, version, OwnKey)
  BY DEF CopiesInv, PlainOK, IsCurrent, Honest, Stored

(* ... and it has all that had changed when the version was asked for.     *)
LEMMA ListedIsGood ==
  ASSUME CopiesInv, NEW s \in Sources, NEW version \in Past(s), NEW t \in Nat,
         IsCurrent(s, version), Recent(s, version, t)
  PROVE  Good(s, OwnKey, t)
<1>1. /\ plain[s] \in Plain /\ Past(s) \subseteq Nat /\ version \in Nat
      /\ ~plain[s].late => version <= plain[s].content
  BY OriginIsPast DEF CopiesInv, PlainOK, IsCurrent
<1>2. plain[s].late \/ Recent(s, plain[s].content, t)
  BY <1>1 DEF Recent, Plain
<1> QED BY <1>2 DEF Good, IsCurrent, Stored, LateUpload, ContentOf

(* A copy labelled with the version the origin has is that version.        *)
LEMMA LabelledIsGood ==
  ASSUME CopiesInv, NEW s \in Sources, NEW o \in Nat \cup {OwnKey}, Honest(s, Origin(s), o), NEW t
  PROVE  Good(s, o, t)
<1>1. /\ Origin(s) \in Nat /\ Origin(s) # None /\ Past(s) \subseteq Nat
      /\ \A p \in Past(s) : p <= Origin(s)
  BY OriginIsPast, NoneIsNoNumber DEF CopiesInv, TimeOK
<1>2. CASE o = OwnKey
  <2>1. plain[s] \in Plain /\ (plain[s].late \/ Origin(s) <= plain[s].content)
    BY <1>1, <1>2 DEF Honest, Stored, CopiesInv, PlainOK
  <2>2. plain[s].late \/ Recent(s, plain[s].content, t)
    BY <1>1, <2>1 DEF Recent, Plain
  <2> QED BY <1>2, <2>2 DEF Good, Honest, LateUpload, ContentOf
<1>3. CASE o # OwnKey
  <2>1. PICK x \in versioned : x.source = s /\ x.version = o
    BY <1>3 DEF Honest, Stored
  <2>2. ContentOf(s, o) = x.content /\ x \in Versioned /\ o <= x.content /\ Origin(s) <= o
    BY <1>1, <1>3, <2>1, ContentIs DEF CopiesInv, VersionedOK, Honest
  <2>3. Recent(s, x.content, t)
    BY <1>1, <1>3, <2>2 DEF Recent, Versioned
  <2> QED BY <2>2, <2>3 DEF Good, Honest
<1> QED BY <1>2, <1>3

-----------------------------------------------------------------------------
(* The steps.                                                              *)
LEMMA CopiesInvInit == CopiesInit => CopiesInv
<1> SUFFICES ASSUME CopiesInit PROVE CopiesInv
  OBVIOUS
<1>1. \A s \in Sources : changes[s] = <<0>> /\ Len(changes[s]) = 1
  BY DEF CopiesInit
<1>2. \A s \in Sources : Past(s) = {0} /\ Origin(s) = 0
  BY <1>1 DEF Past, Origin
<1>3. TimeOK
  <2>1. /\ <<0>> \in Seq(Nat) /\ changes = [s \in Sources |-> <<0>>] /\ clock = 0
        /\ page.links \subseteq Sources /\ page.modified \in Nat
    BY DEF CopiesInit
  <2> QED BY <1>1, <1>2, <2>1 DEF TimeOK
<1>4. IndexOK /\ PlainOK /\ VersionedOK /\ SnapshotsOK
  BY DEF CopiesInit, IndexOK, PlainOK, VersionedOK, SnapshotsOK
<1>5. CrawlsOK
  BY <1>3, IdleIsSound DEF CopiesInit, CrawlsOK
<1> QED BY <1>3, <1>4, <1>5 DEF CopiesInv

LEMMA TickKeepsInv == ASSUME CopiesInv, Tick PROVE CopiesInv' /\ Grows
<1>1. /\ clock \in Nat /\ clock' = clock + 1 /\ changes \in [Sources -> Seq(Nat)]
      /\ UNCHANGED <<groups, manifest, plain, versioned, snapshot, crawl>>
  BY DEF CopiesInv, TimeOK, Tick, indexVars, objectVars
<1>2. ASSUME NEW s \in Sources
      PROVE  /\ changes'[s] \in Seq(Nat) /\ Len(changes'[s]) > 0
             /\ Past(s) \subseteq Past(s)' /\ Past(s)' \subseteq Past(s) \cup {clock + 1}
             /\ \A t \in Past(s)' : t <= Origin(s)' /\ t <= clock + 1
  <2>1. /\ changes[s] \in Seq(Nat) /\ Len(changes[s]) > 0 /\ Len(changes[s]) \in Nat
        /\ \A t \in Past(s) : t <= Origin(s) /\ t <= clock
        /\ Past(s) \subseteq Nat
    BY <1>1, LenProperties, OriginIsPast DEF CopiesInv, TimeOK
  <2>2. CASE changes'[s] = changes[s]
    <3>1. Past(s)' = Past(s) /\ Origin(s)' = Origin(s)
      BY <2>2 DEF Past, Origin
    <3> QED BY <1>1, <2>1, <2>2, <3>1
  <2>3. CASE changes'[s] = Append(changes[s], clock + 1)
    <3> DEFINE q == Append(changes[s], clock + 1)
               n == Len(changes[s])
    <3>1. /\ q \in Seq(Nat) /\ Len(q) = n + 1 /\ q[n + 1] = clock + 1
          /\ \A i \in 1..n : q[i] = changes[s][i]
      BY <1>1, <2>1, AppendProperties
    <3>2. changes'[s] = q /\ n \in Nat
      BY <2>1, <2>3
    <3>3. Past(s) = {changes[s][i] : i \in 1..n}
      BY DEF Past
    <3> HIDE DEF q, n
    <3>4. Origin(s)' = clock + 1 /\ Past(s)' = {q[i] : i \in 1..(n + 1)}
      BY <3>1, <3>2 DEF Past, Origin
    <3>5. 1..(n + 1) = 1..n \cup {n + 1}
      BY <3>2
    <3>6. Past(s)' = Past(s) \cup {clock + 1}
      BY <3>1, <3>3, <3>4, <3>5
    <3>7. changes'[s] \in Seq(Nat) /\ Len(changes'[s]) > 0
      BY <3>1, <3>2
    <3>8. \A t \in Past(s) : t <= clock + 1
      BY <1>1, <2>1
    <3>9. \A t \in Past(s)' : t <= clock + 1
      BY <1>1, <3>6, <3>8
    <3>10. Past(s) \subseteq Past(s)' /\ Past(s)' \subseteq Past(s) \cup {clock + 1}
      BY <3>6
    <3> QED BY <3>4, <3>7, <3>9, <3>10
  <2> QED BY <2>2, <2>3 DEF Tick
<1>3. Grows
  <2>1. clock' \in Nat /\ clock <= clock' /\ ~(clock + 1 <= clock)
    BY <1>1
  <2>2. \A s \in Sources : Past(s)' \subseteq Nat
    BY <1>1, <1>2, OriginIsPast DEF CopiesInv
  <2>3. VersionedOK /\ VersionedOK'
    BY <1>1 DEF CopiesInv, VersionedOK
  <2> QED BY <1>1, <1>2, <2>1, <2>2, <2>3 DEF Grows
<1>4. TimeOK'
  <2>1. changes' \in [Sources -> Seq(Nat)]
    BY <1>2 DEF Tick
  <2>2. page'.links \subseteq Sources /\ page'.modified \in Nat
    BY DEF Tick, CopiesInv, TimeOK
  <2> QED BY <1>1, <1>2, <2>1, <2>2 DEF TimeOK
<1>5. PlainOK'
  <2> SUFFICES ASSUME NEW s \in Sources, plain[s] # None
               PROVE  /\ plain[s].uploaded <= clock + 1
                      /\ ~plain[s].late => \A t \in Past(s)' : t <= plain[s].uploaded => t <= plain[s].content
    BY <1>1 DEF PlainOK, CopiesInv
  <2>1. /\ plain[s] \in Plain /\ plain[s].uploaded \in Nat /\ plain[s].uploaded <= clock
        /\ ~plain[s].late => \A t \in Past(s) : t <= plain[s].uploaded => t <= plain[s].content
    BY DEF CopiesInv, PlainOK, Plain
  <2> QED BY <1>1, <1>2, <2>1
<1>6. CrawlsOK'
  BY <1>1, <1>3, SoundStays DEF CopiesInv, CrawlsOK
<1> QED BY <1>1, <1>3, <1>4, <1>5, <1>6, IndexStays, VersionedStays, SnapshotsStay DEF CopiesInv, indexVars

LEMMA LoadKeepsInv == ASSUME CopiesInv, NEW w \in Crawlers, LoadDiscovery(w) PROVE CopiesInv' /\ Grows
<1> DEFINE cached == CachedDiscovery
<1>1. UNCHANGED <<originVars, indexVars, plain, versioned, snapshot>>
  BY DEF LoadDiscovery, objectVars
<1>2. cached # None => cached \in Found
  BY DEF CachedDiscovery, CopiesInv, IndexOK
<1>3. cached \in Manifest \cup {None}
  BY <1>2 DEF Found
<1>4. \/ crawl' = [crawl EXCEPT ![w] = [IdleCrawl EXCEPT !.step = "discover", !.cached = cached]]
      \/ cached # None /\ \E calm \in BOOLEAN : UseListing(w, cached, calm)
  BY DEF LoadDiscovery
<1> HIDE DEF cached
<1>5. CASE crawl' = [crawl EXCEPT ![w] = [IdleCrawl EXCEPT !.step = "discover", !.cached = cached]]
  <2> DEFINE r == [IdleCrawl EXCEPT !.step = "discover", !.cached = cached]
  <2>1. IdleCrawl \in CrawlRecord /\ CrawlSound(IdleCrawl)
    BY IdleIsSound DEF SoundCrawls, CopiesInv
  <2>2. /\ r \in CrawlRecord /\ r.step = "discover" /\ r.listing = IdleCrawl.listing
        /\ r.asked = IdleCrawl.asked /\ r.todo = {} /\ r.cached = cached
    BY <1>3, <2>1 DEF CrawlRecord, Steps, IdleCrawl
  <2>3. crawl' = [crawl EXCEPT ![w] = r]
    BY <1>5
  <2> HIDE DEF r
  <2>4. CrawlSound(r)
    BY <1>2, <2>1, <2>2 DEF CrawlSound
  <2> QED BY <1>1, <2>2, <2>3, <2>4, OnlyCrawl DEF SoundCrawls
<1>6. CASE cached # None /\ \E calm \in BOOLEAN : UseListing(w, cached, calm)
  <2>1. PICK r \in SoundCrawls : crawl' = [crawl EXCEPT ![w] = r]
    BY <1>2, <1>6, UsingIsSound
  <2> QED BY <1>1, <2>1, OnlyCrawl
<1> QED BY <1>4, <1>5, <1>6

LEMMA DiscoverKeepsInv == ASSUME CopiesInv, NEW w \in Crawlers, Discover(w) PROVE CopiesInv' /\ Grows
<1>1. UNCHANGED <<originVars, indexVars, plain, versioned, snapshot>>
  BY DEF Discover, objectVars
<1>2. crawl[w] \in CrawlRecord /\ CrawlSound(crawl[w])
  BY ACrawl
<1>3. CASE crawl' = [crawl EXCEPT ![w].step = "groups", ![w].cached = None,
                                  ![w].listing = [s \in page.links |-> Origin(s)], ![w].asked = clock]
  <2> DEFINE listing == [s \in page.links |-> Origin(s)]
             r == [crawl[w] EXCEPT !.step = "groups", !.cached = None, !.listing = listing, !.asked = clock]
  <2>1. listing \in Listings /\ DOMAIN listing = page.links /\ page.links \subseteq Sources
    BY OriginIsPast DEF Listings, CopiesInv, TimeOK
  <2>2. \A s \in page.links : listing[s] \in Past(s)
    BY <2>1, OriginIsPast DEF CopiesInv
  <2>3. AskedAt(listing, clock) /\ clock \in Nat
    <3>1. \A s \in page.links : Recent(s, listing[s], clock)
      BY <2>1 DEF Recent, CopiesInv, TimeOK
    <3>2. clock \in Nat /\ clock <= clock
      BY DEF CopiesInv, TimeOK
    <3> HIDE DEF listing
    <3> QED BY <2>1, <2>2, <3>1, <3>2 DEF Known, AskedAt
  <2>4. crawl' = [crawl EXCEPT ![w] = r]
    BY <1>3
  <2> HIDE DEF listing
  <2>5. /\ r \in CrawlRecord /\ r.step = "groups" /\ r.listing = listing /\ r.asked = clock
        /\ r.todo = crawl[w].todo
    BY <1>2, <2>1, <2>3 DEF CrawlRecord, Steps
  <2>6. crawl[w].todo = {}
    BY <1>2 DEF Discover, CrawlSound
  <2> HIDE DEF r
  <2>7. CrawlSound(r)
    BY <2>3, <2>5, <2>6 DEF CrawlSound
  <2> QED BY <1>1, <2>4, <2>5, <2>7, OnlyCrawl DEF SoundCrawls
<1>4. CASE crawl[w].cached # None /\ UseListing(w, crawl[w].cached, FALSE)
  <2>1. crawl[w].cached \in Found
    BY <1>2, <1>4 DEF Discover, CrawlSound
  <2>2. PICK r \in SoundCrawls : crawl' = [crawl EXCEPT ![w] = r]
    BY <1>4, <2>1, UsingIsSound
  <2> QED BY <1>1, <2>2, OnlyCrawl
<1> QED BY <1>3, <1>4 DEF Discover

LEMMA PutGroupsKeepsInv == ASSUME CopiesInv, NEW w \in Crawlers, PutGroups(w) PROVE CopiesInv' /\ Grows
<1>1. /\ crawl[w] \in CrawlRecord /\ CrawlSound(crawl[w]) /\ crawl[w].listing \in KnownListings
  BY ACrawl DEF KnownListings, CrawlSound, AskedAt
<1>2. /\ UNCHANGED <<originVars, manifest, plain, versioned, snapshot>>
      /\ groups' = groups \cup {crawl[w].listing} /\ crawl[w].step = "groups"
  BY DEF PutGroups, objectVars
<1>3. Grows
  BY <1>2, StorageGrows, VersionedStays DEF originVars, CopiesInv
<1>4. IndexOK'
  BY <1>1, <1>2, <1>3, KnownStays, FoundStays DEF CopiesInv, IndexOK, KnownListings
<1> PICK r : r = [crawl[w] EXCEPT !.step = "manifest"]
  OBVIOUS
<1>5. /\ r \in CrawlRecord /\ r.step = "manifest" /\ r.listing = crawl[w].listing /\ r.todo = crawl[w].todo
      /\ r.asked = crawl[w].asked /\ r.asked \in Nat
  BY <1>1 DEF CrawlRecord, Steps
<1>6. crawl' = [crawl EXCEPT ![w] = r]
  BY DEF PutGroups
<1>7. CrawlSound(r)'
  <2>1. AskedAt(r.listing, r.asked)'
    BY <1>1, <1>3, <1>5, AskedStays DEF CrawlSound
  <2> QED BY <1>1, <1>2, <1>5, <2>1 DEF CrawlSound
<1> QED BY <1>2, <1>3, <1>4, <1>5, <1>6, <1>7, OneCrawler, SnapshotsStay, OriginStays, PlainStays, VersionedStays
        DEF CopiesInv, SoundCrawls, originVars

LEMMA PutManifestKeepsInv == ASSUME CopiesInv, NEW w \in Crawlers, PutManifest(w) PROVE CopiesInv' /\ Grows
<1> PICK found : found = Discovered(w)
  OBVIOUS
<1>1. /\ crawl[w] \in CrawlRecord /\ CrawlSound(crawl[w]) /\ clock \in Nat
  BY ACrawl
<1>2. /\ UNCHANGED <<originVars, groups, plain, versioned, snapshot>>
      /\ manifest' = found /\ UseListing(w, found, TRUE)
      /\ found.generation \in groups
  BY <1>1 DEF PutManifest, CrawlSound, objectVars, Discovered
<1>3. found \in Found
  <2>1. found \in Manifest /\ found.generation = crawl[w].listing /\ found.asked = crawl[w].asked
    BY <1>1 DEF Discovered, Manifest, CrawlRecord
  <2> QED BY <1>1, <2>1 DEF Found, CrawlSound
<1>4. Grows
  BY <1>2, NothingTouched DEF originVars, CopiesInv
<1>5. IndexOK'
  BY <1>2, <1>3, <1>4, KnownStays, FoundStays DEF CopiesInv, IndexOK, KnownListings
<1>6. PICK r \in SoundCrawls : crawl' = [crawl EXCEPT ![w] = r]
  BY <1>2, <1>3, UsingIsSound
<1>7. CrawlsOK'
  BY <1>4, <1>6, OneCrawler, SoundStays DEF CopiesInv
<1> QED BY <1>2, <1>4, <1>5, <1>7, SnapshotsStay, OriginStays, PlainStays, VersionedStays
        DEF CopiesInv, originVars

LEMMA CopyHttpKeepsInv ==
  ASSUME CopiesInv, NEW w \in Crawlers, NEW s \in Sources, CopyHttp(w, s) PROVE CopiesInv' /\ Grows
<1>1. UNCHANGED <<originVars, indexVars, plain, versioned, snapshot>>
  BY DEF CopyHttp, objectVars
<1>2. PICK version \in Inspected(s) :
        IF IsCurrent(s, version) THEN Serve(w, s, Copy(OwnKey, clock), clock, TRUE)
        ELSE Go(w, s, "download", None, version) /\ UNCHANGED served
  BY DEF CopyHttp
<1>3. version \in Label /\ (version # None => version \in Past(s)) /\ KindOf[s] = "http"
  BY <1>2, OriginIsPast DEF Inspected, CopiesInv, CopyHttp, Label
<1>4. PICK r \in SoundCrawls : crawl' = [crawl EXCEPT ![w] = r]
  <2>1. CASE IsCurrent(s, version) /\ Serve(w, s, Copy(OwnKey, clock), clock, TRUE)
    BY <2>1, ServingIsSound
  <2>2. CASE ~IsCurrent(s, version) /\ Go(w, s, "download", None, version)
    BY <1>3, <2>2, GoingIsSound
  <2> QED BY <1>2, <2>1, <2>2
<1> QED BY <1>1, <1>4, OnlyCrawl

LEMMA CopyZipKeepsInv ==
  ASSUME CopiesInv, NEW w \in Crawlers, NEW s \in Sources, CopyZip(w, s) PROVE CopiesInv' /\ Grows
<1>1. UNCHANGED <<originVars, indexVars, plain, versioned, snapshot>>
  BY DEF CopyZip, objectVars
<1>2. \/ \E copy, calm : Serve(w, s, copy, clock, calm)
      \/ Go(w, s, "download", CachedMaterialization(s), None)
  BY DEF CopyZip
<1>3. KindOf[s] = "zip" /\ None \in Label
  BY DEF CopyZip, Label
<1>4. PICK r \in SoundCrawls : crawl' = [crawl EXCEPT ![w] = r]
  BY <1>2, <1>3, ServingIsSound, GoingIsSound, CachedType
<1> QED BY <1>1, <1>4, OnlyCrawl

(* A crawler goes on while a snapshot is put.                              *)
LEMMA CrawlAndSnapshot ==
  ASSUME CopiesInv, UNCHANGED <<originVars, indexVars, plain, versioned>>, SnapshotsOK',
         NEW w \in Crawlers, NEW r \in SoundCrawls, crawl' = [crawl EXCEPT ![w] = r]
  PROVE  CopiesInv' /\ Grows
<1>1. Grows
  BY NothingTouched DEF originVars, indexVars, CopiesInv
<1>2. r \in SoundCrawls'
  BY <1>1, SoundStays
<1> QED BY <1>1, <1>2, OneCrawler, IndexStays, OriginStays, PlainStays, VersionedStays
        DEF CopiesInv, originVars, indexVars

(* A copy of a file just asked about, and one taken by the listed version. *)
LEMMA AskedIsWorth ==
  ASSUME CopiesInv, NEW s \in Sources, NEW o \in Nat \cup {OwnKey}, Honest(s, Origin(s), o)
  PROVE  Worth(s, Copy(o, clock))
<1>1. clock \in Nat /\ clock <= clock /\ Good(s, o, clock)
  BY LabelledIsGood DEF CopiesInv, TimeOK
<1>2. /\ Copy(o, clock).object = o /\ Copy(o, clock).asked = clock /\ Copy(o, clock).uploaded = clock
  BY DEF Copy
<1> QED BY <1>1, <1>2 DEF Worth

LEMMA ListedIsWorth ==
  ASSUME CopiesInv, NEW w \in Crawlers, NEW s \in Sources, s \in crawl[w].todo,
         IsCurrent(s, crawl[w].listing[s])
  PROVE  Worth(s, Copy(OwnKey, crawl[w].asked))
<1> PICK t : t = crawl[w].asked
  OBVIOUS
<1>1. /\ t \in Nat /\ t <= clock /\ clock \in Nat
      /\ crawl[w].listing[s] \in Past(s) /\ Recent(s, crawl[w].listing[s], t)
  BY ACrawl DEF CrawlRecord, CrawlSound, AskedAt, Known
<1>2. Good(s, OwnKey, t)
  BY <1>1, ListedIsGood
<1>3. Copy(OwnKey, t).object = OwnKey /\ Copy(OwnKey, t).asked = t /\ Copy(OwnKey, t).uploaded = clock
  BY DEF Copy
<1> QED BY <1>1, <1>2, <1>3 DEF Worth

LEMMA CopyDriveKeepsInv ==
  ASSUME CopiesInv, NEW w \in Crawlers, NEW s \in Sources, CopyDrive(w, s) PROVE CopiesInv' /\ Grows
<1> DEFINE cached == CachedMaterialization(s)
           listed == crawl[w].listing[s]
           byListing == Copy(OwnKey, crawl[w].asked)
           asked == Copy(cached.object, clock)
<1>1. UNCHANGED <<originVars, indexVars, plain, versioned>> /\ KindOf[s] = "drive" /\ s \in crawl[w].todo
  BY DEF CopyDrive
<1>2. Grows
  BY <1>1, NothingTouched DEF originVars, indexVars, CopiesInv
<1>3. listed \in Past(s) /\ listed \in Label /\ listed # None
  <2>1. listed \in Past(s)
    BY <1>1, ACrawl DEF CrawlSound, AskedAt, Known
  <2> QED BY <2>1, OriginIsPast, NoneIsNoNumber DEF CopiesInv, Label
<1>4. Origin(s) \in Past(s) /\ Origin(s) \in Label /\ Origin(s) # None
  BY OriginIsPast, NoneIsNoNumber DEF CopiesInv, Label
<1>5. cached \in HonestSnapshots(s) \cup {None} /\ UNCHANGED clock
  BY <1>1, CachedType DEF originVars
<1>6. /\ cached # None => Honest(s, cached.label, cached.object)
      /\ cached # None /\ cached.label = Origin(s) => Worth(s, asked)
      /\ asked.object = cached.object
  <2>1. cached # None => /\ Honest(s, cached.label, cached.object)
                         /\ cached.object \in Nat \cup {OwnKey}
    BY CachedIsSnapshot DEF Snapshot
  <2> QED BY <2>1, AskedIsWorth DEF Copy
<1>7. /\ IsCurrent(s, listed) => Worth(s, byListing)
      /\ byListing.object = OwnKey
  BY <1>1, ListedIsWorth DEF Copy
<1>8. \/ UNCHANGED snapshot
      \/ cached # None /\ cached.label = Origin(s) /\ PutSnapshot(s, Origin(s), asked)
      \/ IsCurrent(s, listed) /\ PutSnapshot(s, listed, byListing)
  BY DEF CopyDrive
<1>80. \/ \E copy, calm : Serve(w, s, copy, clock, calm)
       \/ cached # None /\ Go(w, s, "download", cached, Origin(s))
       \/ ~IsCurrent(s, listed) /\ Go(w, s, "download", None, listed)
  BY DEF CopyDrive
<1> HIDE DEF cached, listed, asked, byListing
<1>9. SnapshotsOK'
  <2>1. CASE UNCHANGED snapshot
    BY <1>2, <2>1, SnapshotsStay DEF CopiesInv
  <2>2. CASE cached # None /\ cached.label = Origin(s) /\ PutSnapshot(s, Origin(s), asked)
    BY <1>2, <1>4, <1>5, <1>6, <2>2, PuttingSnapshot
  <2>3. CASE IsCurrent(s, listed) /\ PutSnapshot(s, listed, byListing)
    BY <1>2, <1>3, <1>5, <1>7, <2>3, CurrentIsHonest, PuttingSnapshot
  <2> QED BY <1>8, <2>1, <2>2, <2>3
<1>10. PICK r \in SoundCrawls : crawl' = [crawl EXCEPT ![w] = r]
  <2>1. CASE \E copy, calm : Serve(w, s, copy, clock, calm)
    BY <2>1, ServingIsSound
  <2>2. CASE cached # None /\ Go(w, s, "download", cached, Origin(s))
    BY <1>1, <1>4, <1>5, <2>2, GoingIsSound
  <2>3. CASE ~IsCurrent(s, listed) /\ Go(w, s, "download", None, listed)
    BY <1>1, <1>3, <2>3, GoingIsSound
  <2> QED BY <1>80, <2>1, <2>2, <2>3
<1> QED BY <1>1, <1>9, <1>10, CrawlAndSnapshot

\* ... and it is as recent as anything when the version is the origin's.
LEMMA CurrentIsRecent ==
  ASSUME CopiesInv, NEW s \in Sources, IsCurrent(s, Origin(s)), NEW t
  PROVE  plain[s].late \/ Recent(s, plain[s].content, t)
<1>1. /\ Origin(s) \in Past(s) /\ Origin(s) \in Nat /\ Past(s) \subseteq Nat
      /\ \A p \in Past(s) : p <= Origin(s)
  BY OriginIsPast DEF CopiesInv, TimeOK
<1>2. plain[s] \in Plain /\ (~plain[s].late => Origin(s) <= plain[s].content)
  BY <1>1 DEF CopiesInv, PlainOK, IsCurrent
<1> QED BY <1>1, <1>2 DEF Recent, Plain

LEMMA DownloadKeepsInv == ASSUME CopiesInv, NEW w \in Crawlers, Download(w) PROVE CopiesInv' /\ Grows
<1> DEFINE s == crawl[w].source
           r == [crawl[w] EXCEPT !.step = "upload", !.content = Origin(s), !.version = ResponseVersion(w)]
<1>1. UNCHANGED <<originVars, indexVars, plain, versioned, snapshot>> /\ crawl' = [crawl EXCEPT ![w] = r]
  BY DEF Download, objectVars
<1>2. /\ crawl[w] \in CrawlRecord /\ CrawlSound(crawl[w]) /\ crawl[w].step = "download" /\ s \in Sources
      /\ crawl[w].version \in Label
  BY ACrawl DEF Download, CrawlSound, CrawlRecord
<1>3. /\ Origin(s) \in Past(s) /\ Origin(s) \in Nat /\ Origin(s) \in Label /\ Origin(s) # None
      /\ \A t \in Past(s) : t <= Origin(s)
  BY <1>2, OriginIsPast, NoneIsNoNumber DEF CopiesInv, Label, TimeOK
<1>4. ResponseVersion(w) \in {crawl[w].version, Origin(s)}
  BY DEF ResponseVersion
<1>5. /\ r \in CrawlRecord /\ r.step = "upload" /\ r.listing = crawl[w].listing /\ r.todo = crawl[w].todo
      /\ r.asked = crawl[w].asked /\ r.source = s /\ r.content = Origin(s) /\ r.version \in {crawl[w].version, Origin(s)}
      /\ r.cached = crawl[w].cached /\ r.checked = crawl[w].checked /\ r.checked \in Nat
      /\ KindOf[s] = "drive" => r.version = crawl[w].version
  <2> DEFINE v == ResponseVersion(w)
             o == Origin(s)
  <2>1. /\ v \in Label /\ o \in Label /\ v \in {crawl[w].version, o}
        /\ KindOf[s] = "drive" => v = crawl[w].version
    BY <1>2, <1>3, <1>4 DEF ResponseVersion
  <2>2. r = [crawl[w] EXCEPT !.step = "upload", !.content = o, !.version = v]
    OBVIOUS
  <2> HIDE DEF v, o, r
  <2>3. /\ r \in CrawlRecord /\ r.step = "upload" /\ r.listing = crawl[w].listing /\ r.todo = crawl[w].todo
        /\ r.asked = crawl[w].asked /\ r.source = s /\ r.content = o /\ r.version = v
        /\ r.cached = crawl[w].cached /\ r.checked = crawl[w].checked /\ r.checked \in Nat
    BY <1>2, <2>1, <2>2 DEF CrawlRecord, Steps
  <2> QED BY <2>1, <2>3 DEF o
<1>6. /\ crawl[w].version # None => crawl[w].version \in Past(s)
      /\ KindOf[s] = "drive" => crawl[w].version # None
      /\ AskedAt(crawl[w].listing, crawl[w].asked) /\ crawl[w].todo \subseteq DOMAIN crawl[w].listing
      /\ crawl[w].checked <= clock
      /\ crawl[w].cached # None => crawl[w].cached \in HonestSnapshots(s)
      /\ KindOf[s] = "drive" /\ crawl[w].cached # None => Recent(s, crawl[w].version, crawl[w].checked)
      /\ ~NewKey(crawl[w]) /\ IsCurrent(s, crawl[w].version) =>
           plain[s].late \/ Recent(s, plain[s].content, crawl[w].checked)
  BY <1>2 DEF CrawlSound
<1> HIDE DEF r, s
<1>7. CrawlSound(r)
  <2>1. Recent(s, Origin(s), r.checked)
    BY <1>3 DEF Recent
  <2>2. KindOf[s] = "drive" /\ r.cached # None => Recent(s, r.version, r.checked)
    BY <1>5, <1>6
  <2>3. NewKey(r) <=> NewKey(crawl[w])
    BY <1>5 DEF NewKey, s
  <2>4. ASSUME ~NewKey(r), IsCurrent(s, r.version)
        PROVE  plain[s].late \/ Recent(s, plain[s].content, r.checked)
    <3>1. CASE r.version = crawl[w].version
      BY <1>5, <1>6, <2>3, <2>4, <3>1
    <3>2. CASE r.version = Origin(s)
      BY <1>2, <1>3, <2>4, <3>2, OriginIsPast, CurrentIsRecent
    <3> QED BY <1>5, <3>1, <3>2
  <2> QED BY <1>2, <1>3, <1>5, <1>6, <2>1, <2>2, <2>4 DEF CrawlSound
<1> QED BY <1>1, <1>5, <1>7, OnlyCrawl DEF SoundCrawls

LEMMA KeepCopyKeepsInv == ASSUME CopiesInv, NEW w \in Crawlers, KeepCopy(w) PROVE CopiesInv' /\ Grows
<1>1. UNCHANGED <<originVars, indexVars, plain, versioned, snapshot>>
  BY DEF KeepCopy, objectVars
<1>2. PICK r \in SoundCrawls : crawl' = [crawl EXCEPT ![w] = r]
  BY ServingIsSound DEF KeepCopy
<1> QED BY <1>1, <1>2, OnlyCrawl

LEMMA AbandonKeepsInv == ASSUME CopiesInv, NEW w \in Crawlers, Abandon(w) PROVE CopiesInv' /\ Grows
  BY IdleIsSound, OnlyCrawl DEF Abandon, objectVars, CopiesInv

(* What a crawler knows when its download is complete.                     *)
LEMMA Downloaded ==
  ASSUME CopiesInv, NEW w \in Crawlers, crawl[w].step \in {"upload", "stored"}
  PROVE  /\ crawl[w] \in CrawlRecord /\ CrawlSound(crawl[w]) /\ crawl[w].source \in Sources
         /\ crawl[w].content \in Past(crawl[w].source) /\ crawl[w].content \in Nat
         /\ crawl[w].version \in Label
         /\ crawl[w].version # None => /\ crawl[w].version \in Past(crawl[w].source)
                                       /\ crawl[w].version \in Nat
                                       /\ crawl[w].version <= crawl[w].content
         /\ KindOf[crawl[w].source] = "drive" => crawl[w].version # None
         /\ NewKey(crawl[w]) <=> ToVersionedKey(w)
         /\ ToVersionedKey(w) => Key(crawl[w]) = VersionOf(w) /\ VersionOf(w) \in Nat
         /\ ~ToVersionedKey(w) => Key(crawl[w]) = OwnKey
<1>1. /\ crawl[w] \in CrawlRecord /\ CrawlSound(crawl[w]) /\ crawl[w].source \in Sources
      /\ crawl[w].content \in Past(crawl[w].source) /\ crawl[w].version \in Label
      /\ crawl[w].version # None => /\ crawl[w].version \in Past(crawl[w].source)
                                    /\ crawl[w].version <= crawl[w].content
      /\ KindOf[crawl[w].source] = "drive" => crawl[w].version # None
  BY ACrawl DEF CrawlSound, CrawlRecord
<1>2. Past(crawl[w].source) \subseteq Nat
  BY <1>1, OriginIsPast DEF CopiesInv
<1>3. NewKey(crawl[w]) <=> ToVersionedKey(w)
  BY DEF NewKey, ToVersionedKey
<1>4. ToVersionedKey(w) => Key(crawl[w]) = VersionOf(w) /\ VersionOf(w) \in Nat
  BY <1>1, <1>2, <1>3 DEF Key, VersionOf, ToVersionedKey
<1> QED BY <1>1, <1>2, <1>3, <1>4 DEF Key

(* An uploaded copy is worth its version.                                  *)
LEMMA StoredIsSound ==
  ASSUME CopiesInv, NEW w \in Crawlers, crawl[w].step = "upload", Grows,
         NEW r, r = [crawl[w] EXCEPT !.step = "stored"], crawl' = [crawl EXCEPT ![w] = r],
         Honest(r.source, r.version, Key(r))', Good(r.source, Key(r), r.checked)'
  PROVE  CrawlsOK'
<1>1. crawl[w] \in CrawlRecord /\ CrawlSound(crawl[w])
  BY ACrawl
<1>2. /\ r \in CrawlRecord /\ r.step = "stored" /\ r.listing = crawl[w].listing /\ r.todo = crawl[w].todo
      /\ r.source = crawl[w].source /\ r.version = crawl[w].version /\ r.content = crawl[w].content
  BY <1>1 DEF CrawlRecord, Steps
<1>3. crawl[w] \in SoundCrawls'
  BY <1>1, SoundStays DEF SoundCrawls
<1>4. r.cached = crawl[w].cached /\ r.checked = crawl[w].checked /\ r.asked = crawl[w].asked
  BY <1>1 DEF CrawlRecord
<1> PICK q : q = crawl[w]
  OBVIOUS
<1>5. CrawlSound(q)' /\ q.step = "upload"
  BY <1>3 DEF SoundCrawls
<1>6. NewKey(r) <=> NewKey(q)
  BY <1>2, <1>4 DEF NewKey
<1>7. CrawlSound(r)'
  BY <1>2, <1>4, <1>5, <1>6 DEF CrawlSound
<1> QED BY <1>2, <1>7, OneCrawler DEF CopiesInv, SoundCrawls

LEMMA UploadPlainKeepsInv == ASSUME CopiesInv, NEW w \in Crawlers, UploadPlain(w) PROVE CopiesInv' /\ Grows
<1> PICK r : r = [crawl[w] EXCEPT !.step = "stored"]
  OBVIOUS
<1> PICK s : s = crawl[w].source
  OBVIOUS
<1> PICK version : version = crawl[w].version
  OBVIOUS
<1>1. /\ UNCHANGED <<originVars, indexVars, versioned, snapshot>> /\ ~ToVersionedKey(w)
      /\ crawl[w].step = "upload" /\ crawl' = [crawl EXCEPT ![w] = r]
  BY DEF UploadPlain
<1>2. /\ crawl[w] \in CrawlRecord /\ s \in Sources /\ ~NewKey(crawl[w])
      /\ crawl[w].content \in Past(s) /\ crawl[w].content \in Nat /\ version \in Label
      /\ version # None => version \in Past(s) /\ version <= crawl[w].content
  BY <1>1, Downloaded
<1>3. /\ r.source = s /\ r.version = version /\ Key(r) = OwnKey
      /\ r.checked = crawl[w].checked /\ r.checked \in Nat
  <2>1. /\ r.source = s /\ r.version = version /\ r.cached = crawl[w].cached
        /\ r.checked = crawl[w].checked /\ r.checked \in Nat
    BY <1>2 DEF CrawlRecord
  <2> QED BY <1>2, <2>1 DEF Key, NewKey
<1>30. /\ r.checked <= clock /\ Recent(s, crawl[w].content, r.checked)
       /\ IsCurrent(s, version) => plain[s].late \/ Recent(s, plain[s].content, r.checked)
  BY <1>1, <1>2, <1>3, ACrawl DEF CrawlSound
<1>4. clock \in Nat /\ \A x \in Sources : Origin(x) \in Past(x) /\ \A t \in Past(x) : t <= Origin(x)
  BY OriginIsPast DEF CopiesInv, TimeOK
<1>5. CASE IsCurrent(s, version) /\ UNCHANGED plain
  <2>1. Grows
    BY <1>1, <1>5, NothingTouched DEF originVars, indexVars, CopiesInv
  <2>2. version \in Past(s)
    BY <1>2, <1>5 DEF IsCurrent
  <2>3. Honest(s, version, OwnKey)'
    BY <1>2, <1>5, <2>1, <2>2, CurrentIsHonest, HonestStays
  <2>4. Good(s, OwnKey, r.checked)'
    <3>1. Good(s, OwnKey, r.checked)
      BY <1>5, <1>30 DEF Good, IsCurrent, Stored, LateUpload, ContentOf
    <3> QED BY <1>2, <1>3, <1>30, <2>1, <3>1, GoodStays
  <2>5. CrawlsOK'
    BY <1>1, <1>3, <2>1, <2>3, <2>4, StoredIsSound
  <2> QED BY <1>1, <1>5, <2>1, <2>5, SnapshotsStay, IndexStays, OriginStays, PlainStays, VersionedStays
          DEF CopiesInv, originVars
<1>6. CASE plain' = [plain EXCEPT ![s] = [content |-> crawl[w].content, uploaded |-> clock,
                                          late |-> crawl[w].content # Origin(s)]]
  <2> PICK p : p = [content |-> crawl[w].content, uploaded |-> clock, late |-> crawl[w].content # Origin(s)]
    OBVIOUS
  <2>1. /\ p.content = crawl[w].content /\ p.uploaded = clock /\ p \in Plain /\ p # None
        /\ p.late \/ p.content = Origin(s)
    <3>1. (crawl[w].content # Origin(s)) \in BOOLEAN
      OBVIOUS
    <3>2. p \in Plain
      BY <1>2, <1>4, <3>1 DEF Plain
    <3> QED BY <3>2, NoneIsNoNumber
  <2>2. plain' = [plain EXCEPT ![s] = p] /\ plain \in [Sources -> {None} \cup Plain]
    BY <1>6 DEF CopiesInv, PlainOK
  <2>3. Grows
    <3>1. \A x \in Sources : plain'[x] = plain[x]
            \/ (plain'[x] # None /\ (plain'[x].late \/ \A t \in Past(x) : t <= plain'[x].content))
      BY <1>2, <1>4, <2>1, <2>2
    <3> QED BY <1>1, <3>1, StorageGrows, VersionedStays DEF originVars, indexVars, CopiesInv
  <2>4. PlainOK'
    <3>1. UNCHANGED clock /\ \A x \in Sources : Past(x)' = Past(x)
      BY <1>1 DEF originVars, Past
    <3>2. plain'[s] = p /\ \A x \in Sources \ {s} : plain'[x] = plain[x]
      BY <1>2, <2>2
    <3>3. plain' \in [Sources -> {None} \cup Plain]
      BY <2>1, <2>2
    <3>4. p.uploaded <= clock /\ (~p.late => \A t \in Past(s) : t <= p.content)
      BY <1>2, <1>4, <2>1
    <3> QED BY <3>1, <3>2, <3>3, <3>4 DEF PlainOK, CopiesInv
  <2>5. Honest(s, version, OwnKey)'
    <3>1. Past(s)' = Past(s) /\ plain'[s] = p
      BY <1>1, <1>2, <2>2 DEF originVars, Past
    <3> QED BY <1>2, <2>1, <3>1 DEF Honest, Stored
  <2>6. Good(s, OwnKey, r.checked)'
    <3>1. Past(s)' = Past(s) /\ plain'[s] = p
      BY <1>1, <1>2, <2>2 DEF originVars, Past
    <3> QED BY <1>30, <2>1, <3>1 DEF Good, Stored, ContentOf, Recent
  <2>7. CrawlsOK'
    BY <1>1, <1>3, <2>3, <2>5, <2>6, StoredIsSound
  <2> QED BY <1>1, <2>3, <2>4, <2>7, SnapshotsStay, IndexStays, OriginStays, VersionedStays
          DEF CopiesInv, originVars
<1> QED BY <1>5, <1>6 DEF UploadPlain

LEMMA UploadVersionedKeepsInv ==
  ASSUME CopiesInv, NEW w \in Crawlers, UploadVersioned(w) PROVE CopiesInv' /\ Grows
<1> PICK r : r = [crawl[w] EXCEPT !.step = "stored"]
  OBVIOUS
<1> PICK s : s = crawl[w].source
  OBVIOUS
<1> PICK v : v = VersionOf(w)
  OBVIOUS
<1> PICK o : o = [source |-> s, version |-> v, content |-> crawl[w].content]
  OBVIOUS
<1>1. /\ UNCHANGED <<originVars, indexVars, plain, snapshot>> /\ ToVersionedKey(w)
      /\ crawl[w].step = "upload" /\ crawl' = [crawl EXCEPT ![w] = r]
      /\ versioned' = IF Stored(s, v) THEN versioned ELSE versioned \cup {o}
  BY DEF UploadVersioned
<1>2. /\ crawl[w] \in CrawlRecord /\ s \in Sources /\ NewKey(crawl[w])
      /\ Key(crawl[w]) = v /\ v \in Nat /\ crawl[w].content \in Nat
      /\ crawl[w].version # None => crawl[w].version \in Past(s) /\ crawl[w].version <= crawl[w].content
      /\ KindOf[s] = "drive" => crawl[w].version # None
  BY <1>1, Downloaded
<1>3. /\ r.source = s /\ r.version = crawl[w].version /\ Key(r) = v
      /\ r.checked = crawl[w].checked /\ r.checked \in Nat
  <2>1. /\ r.source = s /\ r.version = crawl[w].version /\ r.cached = crawl[w].cached
        /\ r.content = crawl[w].content /\ r.checked = crawl[w].checked /\ r.checked \in Nat
    BY <1>2 DEF CrawlRecord
  <2> QED BY <1>2, <2>1 DEF Key, NewKey
<1>4. v <= crawl[w].content /\ (crawl[w].version # None => crawl[w].version <= v)
  <2>1. v = crawl[w].content \/ (v = crawl[w].version /\ KindOf[s] = "drive")
    BY <1>1 DEF VersionOf, ToVersionedKey
  <2> QED BY <1>2, <2>1
<1>40. r.checked <= clock /\ Recent(s, v, r.checked)
  <2>1. CrawlSound(crawl[w]) /\ (v = crawl[w].content
          \/ (v = crawl[w].version /\ KindOf[s] = "drive" /\ crawl[w].cached # None))
    BY <1>1, ACrawl DEF VersionOf, ToVersionedKey
  <2> QED BY <1>1, <1>3, <2>1 DEF CrawlSound
<1>5. o \in Versioned /\ o.source = s /\ o.version = v /\ o.content = crawl[w].content
  BY <1>2 DEF Versioned
<1>6. VersionedOK'
  <2>1. VersionedOK
    BY DEF CopiesInv
  <2>2. CASE Stored(s, v)
    BY <1>1, <2>1, <2>2 DEF VersionedOK
  <2>3. CASE ~Stored(s, v)
    <3>1. versioned' = versioned \cup {o} /\ v # OwnKey
      BY <1>1, <1>2, <2>3 DEF OwnKey
    <3>2. \A x \in versioned : x.source # s \/ x.version # v
      BY <2>3, <3>1 DEF Stored
    <3> QED BY <1>4, <1>5, <2>1, <3>1, <3>2 DEF VersionedOK
  <2> QED BY <2>2, <2>3
<1>7. Grows
  BY <1>1, <1>6, StorageGrows DEF originVars, indexVars, CopiesInv
<1>8. Honest(r.source, r.version, Key(r))'
  <2>1. v # OwnKey
    BY <1>2 DEF OwnKey
  <2>2. Stored(s, v)'
    <3>1. \E x \in versioned' : x.source = s /\ x.version = v
      BY <1>1, <1>5, <2>1 DEF Stored
    <3> QED BY <2>1, <3>1 DEF Stored
  <2>3. Past(s)' = Past(s)
    BY <1>1 DEF originVars, Past
  <2>4. Honest(s, r.version, v)'
    BY <1>2, <1>3, <1>4, <2>1, <2>2, <2>3 DEF Honest
  <2>5. Key(r)' = v
    BY <1>3 DEF Key, NewKey
  <2> QED BY <1>3, <2>4, <2>5
<1>9. Good(r.source, Key(r), r.checked)'
  <2>1. v # OwnKey
    BY <1>2 DEF OwnKey
  <2>2. PICK x \in versioned' : x.source = s /\ x.version = v
    BY <1>1, <1>5, <2>1 DEF Stored
  <2>3. Stored(s, v)' /\ ContentOf(s, v)' = x.content
    BY <1>2, <1>6, <2>1, <2>2, ContentIs DEF Stored
  <2>4. x.content \in Nat /\ v <= x.content
    BY <1>6, <2>2 DEF VersionedOK, Versioned
  <2>5. Past(s)' = Past(s) /\ Past(s) \subseteq Nat
    BY <1>1, <1>2, OriginIsPast DEF originVars, Past, CopiesInv
  <2>6. Recent(s, x.content, r.checked)'
    BY <1>2, <1>40, <2>4, <2>5 DEF Recent
  <2>7. Good(s, v, r.checked)'
    BY <2>3, <2>6 DEF Good
  <2>8. Key(r)' = v
    BY <1>3 DEF Key, NewKey
  <2> QED BY <1>3, <2>7, <2>8
<1>10. CrawlsOK'
  BY <1>1, <1>3, <1>7, <1>8, <1>9, StoredIsSound
<1> QED BY <1>1, <1>6, <1>7, <1>10, SnapshotsStay, IndexStays, OriginStays, PlainStays
        DEF CopiesInv, originVars

(* A finished copy is as recent as when it was looked at.                  *)
LEMMA FinishedIsWorth ==
  ASSUME CopiesInv, NEW w \in Crawlers, crawl[w].step = "stored",
         NEW o, o = IF ToVersionedKey(w) THEN VersionOf(w) ELSE OwnKey
  PROVE  /\ crawl[w].source \in Sources /\ crawl[w].version \in Label
         /\ crawl[w].checked \in Nat /\ crawl[w].checked <= clock /\ clock \in Nat
         /\ Honest(crawl[w].source, crawl[w].version, o)
         /\ Worth(crawl[w].source, Copy(o, crawl[w].checked))
<1>1. /\ crawl[w].source \in Sources /\ crawl[w].version \in Label /\ o \in Nat \cup {OwnKey}
      /\ o = Key(crawl[w]) /\ CrawlSound(crawl[w]) /\ crawl[w] \in CrawlRecord
  BY Downloaded
<1>2. /\ Honest(crawl[w].source, crawl[w].version, o) /\ Good(crawl[w].source, o, crawl[w].checked)
      /\ crawl[w].checked \in Nat /\ crawl[w].checked <= clock /\ clock \in Nat
  BY <1>1, ACrawl DEF CrawlSound, CrawlRecord
<1>3. /\ Copy(o, crawl[w].checked).object = o /\ Copy(o, crawl[w].checked).asked = crawl[w].checked
      /\ Copy(o, crawl[w].checked).uploaded = clock
  BY DEF Copy
<1> QED BY <1>1, <1>2, <1>3 DEF Worth

LEMMA FinishCopyKeepsInv == ASSUME CopiesInv, NEW w \in Crawlers, FinishCopy(w) PROVE CopiesInv' /\ Grows
<1> DEFINE s == crawl[w].source
           o == IF ToVersionedKey(w) THEN VersionOf(w) ELSE OwnKey
           copy == Copy(o, crawl[w].checked)
<1>1. /\ UNCHANGED <<originVars, indexVars, plain, versioned>> /\ crawl[w].step = "stored"
      /\ UNCHANGED snapshot \/ PutSnapshot(s, crawl[w].version, copy)
      /\ Serve(w, s, copy, crawl[w].checked, TRUE)
  BY DEF FinishCopy
<1>2. Grows /\ UNCHANGED clock
  BY <1>1, NothingTouched DEF originVars, indexVars, CopiesInv
<1>3. /\ s \in Sources /\ crawl[w].version \in Label /\ Honest(s, crawl[w].version, o)
      /\ Worth(s, copy) /\ copy.object = o
  BY <1>1, FinishedIsWorth DEF Copy
<1> HIDE DEF s, o, copy
<1>4. SnapshotsOK'
  BY <1>1, <1>2, <1>3, SnapshotsStay, PuttingSnapshot DEF CopiesInv
<1>5. PICK r \in SoundCrawls : crawl' = [crawl EXCEPT ![w] = r]
  BY <1>1, ServingIsSound
<1> QED BY <1>1, <1>4, <1>5, CrawlAndSnapshot

LEMMA CopiesInvStep == ASSUME CopiesInv, [CopiesNext]_copiesVars PROVE CopiesInv' /\ Grows
<1>1. CASE Tick
  BY <1>1, TickKeepsInv
<1>2. ASSUME NEW w \in Crawlers,
             LoadDiscovery(w) \/ Discover(w) \/ PutGroups(w) \/ PutManifest(w)
      PROVE  CopiesInv' /\ Grows
  BY <1>2, LoadKeepsInv, DiscoverKeepsInv, PutGroupsKeepsInv, PutManifestKeepsInv
<1>3. ASSUME NEW w \in Crawlers, NEW s \in Sources, CopyHttp(w, s) \/ CopyDrive(w, s) \/ CopyZip(w, s)
      PROVE  CopiesInv' /\ Grows
  BY <1>3, CopyHttpKeepsInv, CopyDriveKeepsInv, CopyZipKeepsInv
<1>4. ASSUME NEW w \in Crawlers,
             \/ Download(w) \/ KeepCopy(w) \/ UploadPlain(w)
             \/ UploadVersioned(w) \/ FinishCopy(w) \/ Abandon(w)
      PROVE  CopiesInv' /\ Grows
  BY <1>4, DownloadKeepsInv, KeepCopyKeepsInv, UploadPlainKeepsInv, UploadVersionedKeepsInv,
     FinishCopyKeepsInv, AbandonKeepsInv
<1>5. CASE UNCHANGED copiesVars
  <2>1. UNCHANGED <<originVars, indexVars, plain, versioned, snapshot, crawl>>
    BY <1>5 DEF copiesVars, objectVars
  <2>2. Grows
    BY <2>1, NothingTouched DEF originVars, indexVars, CopiesInv
  <2>3. CrawlsOK'
    BY <2>1, <2>2, SoundStays DEF CopiesInv, CrawlsOK
  <2> QED BY <2>1, <2>2, <2>3, SnapshotsStay, IndexStays, OriginStays, PlainStays, VersionedStays
          DEF CopiesInv, originVars
<1> QED BY <1>1, <1>2, <1>3, <1>4, <1>5 DEF CopiesNext

(* At every point of any crawls of a page that changes meanwhile, what a   *)
(* crawler knows and what the caches hold agree with what the origins had. *)
THEOREM CopiesInvariant == CopiesSpec => []CopiesInv
  BY CopiesInvInit, CopiesInvStep, PTL DEF CopiesSpec

(* What the manifest and the snapshots refer to is in storage, wherever a  *)
(* crawl was cut short and whoever else was crawling.                      *)
THEOREM IndexesAlwaysWhole == CopiesSpec => []IndexesAreWhole
<1>1. CopiesInv => IndexesAreWhole
  BY DEF CopiesInv, IndexOK, SnapshotsOK, HonestSnapshots, Honest, IndexesAreWhole
<1> QED BY <1>1, CopiesInvariant, PTL

(* No snapshot claims a newer version than it holds, unless its origin had *)
(* changed while the file was on its way.                                  *)
THEOREM LabelsAlwaysHonest == CopiesSpec => []LabelsAreHonest
<1>1. CopiesInv => LabelsAreHonest
  <2> SUFFICES ASSUME CopiesInv, NEW s \in Sources, snapshot[s] # None, snapshot[s].label # None,
                      ~LateUpload(s, snapshot[s].object)
               PROVE  ContentOf(s, snapshot[s].object) >= snapshot[s].label
    BY DEF LabelsAreHonest
  <2> DEFINE l == snapshot[s].label
             o == snapshot[s].object
  <2>1. Honest(s, l, o) /\ l \in Nat /\ l \in Past(s) /\ o \in Nat \cup {OwnKey}
    BY DEF CopiesInv, SnapshotsOK, HonestSnapshots, Snapshot, Label, Honest
  <2>2. ~LateUpload(s, o) /\ l # None
    OBVIOUS
  <2> HIDE DEF l, o
  <2>3. CASE o = OwnKey
    <3>1. plain[s] # None /\ plain[s].content >= l
      <4>1. plain[s] \in Plain /\ plain[s] # None
        BY <2>1, <2>3 DEF Honest, Stored, CopiesInv, PlainOK
      <4> QED BY <2>1, <2>2, <2>3, <4>1 DEF Honest, LateUpload, Plain
    <3> QED BY <2>3, <3>1 DEF ContentOf, l, o
  <2>4. CASE o # OwnKey
    <3> DEFINE x == CHOOSE x \in versioned : x.source = s /\ x.version = o
    <3>1. x \in versioned /\ x.version = o
      BY <2>1, <2>4 DEF Honest, Stored
    <3>2. ContentOf(s, o) = x.content
      BY <2>4 DEF ContentOf
    <3> HIDE DEF x
    <3>3. x \in Versioned /\ x.version <= x.content
      BY <3>1 DEF CopiesInv, VersionedOK
    <3>4. l <= o /\ o \in Nat
      BY <2>1, <2>2, <2>4 DEF Honest
    <3>5. x.content >= l
      BY <2>1, <3>1, <3>3, <3>4 DEF Versioned
    <3> QED BY <3>2, <3>5 DEF l, o
  <2> QED BY <2>3, <2>4
<1> QED BY <1>1, CopiesInvariant, PTL

-----------------------------------------------------------------------------
(* How recent the copies are that a crawl hands on.                        *)
ServedWell(r) ==
  /\ r.source \in Sources /\ r.asked \in Nat /\ r.asked <= clock
  /\ r.content \in Nat /\ (r.late \/ Recent(r.source, r.content, r.asked))
  /\ r.stored \in Nat /\ r.checked \in Nat /\ (r.calm => r.checked < r.stored + TTL)
ServedOK == DOMAIN served = Crawlers /\ \A w \in Crawlers : \A r \in served[w] : ServedWell(r)

LEMMA ServedWellStays == ASSUME Grows, NEW r, ServedWell(r) PROVE ServedWell(r)'
<1>1. r.source \in Sources /\ r.asked \in Nat /\ r.asked <= clock
  BY DEF ServedWell
<1>2. r.asked <= clock'
  BY <1>1 DEF Grows
<1>3. r.late \/ Recent(r.source, r.content, r.asked)'
  BY <1>1, RecentStays DEF ServedWell
<1> QED BY <1>1, <1>2, <1>3 DEF ServedWell

LEMMA ServedStays == ASSUME ServedOK, Grows, UNCHANGED served PROVE ServedOK'
  BY ServedWellStays DEF ServedOK

LEMMA ContentIsNumber ==
  ASSUME CopiesInv, NEW s \in Sources, NEW o \in Nat \cup {OwnKey}, Stored(s, o)
  PROVE  ContentOf(s, o) \in Nat
<1>1. CASE o = OwnKey
  BY <1>1 DEF Stored, ContentOf, CopiesInv, PlainOK, Plain
<1>2. CASE o # OwnKey
  BY <1>2 DEF Stored, ContentOf, CopiesInv, VersionedOK, Versioned
<1> QED BY <1>1, <1>2

(* What is handed on is added to what was.                                 *)
LEMMA ServingIsWell ==
  ASSUME CopiesInv, ServedOK, Grows, NEW w \in Crawlers, NEW s \in Sources, NEW copy, Worth(s, copy),
         NEW checked \in Nat, NEW calm, Serve(w, s, copy, checked, calm),
         calm => checked < copy.uploaded + TTL
  PROVE  ServedOK'
<1> PICK r : r = [source |-> s, object |-> copy.object, content |-> ContentOf(s, copy.object),
                  asked |-> copy.asked, stored |-> copy.uploaded, checked |-> checked,
                  calm |-> calm, late |-> LateUpload(s, copy.object)]
  OBVIOUS
<1>1. served' = [served EXCEPT ![w] = @ \cup {r}]
  BY DEF Serve
<1>2. ServedWell(r)
  <2>1. copy.object \in Nat \cup {OwnKey} /\ Stored(s, copy.object)
    BY DEF Worth, Good
  <2> QED BY <2>1, ContentIsNumber DEF ServedWell, Worth, Good
<1>3. ServedWell(r)'
  BY <1>2, ServedWellStays
<1>4. \A x \in Crawlers : served'[x] \subseteq served[x] \cup {r}
  BY <1>1 DEF ServedOK
<1>5. \A x \in Crawlers : \A q \in served[x] : ServedWell(q)'
  BY ServedWellStays DEF ServedOK
<1> QED BY <1>1, <1>3, <1>4, <1>5 DEF ServedOK

LEMMA SnapshotIsWorth ==
  ASSUME CopiesInv, NEW s \in Sources, NEW c \in HonestSnapshots(s) PROVE Worth(s, c)
<1>1. /\ c \in Snapshot /\ Good(s, c.object, c.asked) /\ c.asked <= c.uploaded /\ c.uploaded <= clock
      /\ clock \in Nat
  BY DEF HonestSnapshots, CopiesInv, TimeOK
<1> QED BY <1>1 DEF Worth, Snapshot

\* A copy that is looked at counts as fresh from then.
LEMMA JustLooked ==
  ASSUME CopiesInv, NEW o, NEW t
  PROVE  clock \in Nat /\ Copy(o, t).uploaded = clock /\ clock < Copy(o, t).uploaded + TTL
  BY CopiesAssumption DEF Copy, CopiesInv, TimeOK

LEMMA FreshIsInTime ==
  ASSUME CopiesInv, NEW s \in Sources, NEW c \in HonestSnapshots(s), Fresh(c.uploaded)
  PROVE  clock < c.uploaded + TTL
<1>1. c.uploaded \in Nat /\ clock \in Nat /\ TTL \in Nat
  BY CopiesAssumption DEF HonestSnapshots, Snapshot, CopiesInv, TimeOK
<1> QED BY <1>1 DEF Fresh

-----------------------------------------------------------------------------
LEMMA CopyHttpIsWell ==
  ASSUME CopiesInv, ServedOK, Grows, NEW w \in Crawlers, NEW s \in Sources, CopyHttp(w, s)
  PROVE  ServedOK'
<1>1. PICK version \in Inspected(s) :
        IF IsCurrent(s, version) THEN Serve(w, s, Copy(OwnKey, clock), clock, TRUE)
        ELSE Go(w, s, "download", None, version) /\ UNCHANGED served
  BY DEF CopyHttp
<1>2. CASE IsCurrent(s, version)
  <2>1. version = Origin(s) /\ Serve(w, s, Copy(OwnKey, clock), clock, TRUE)
    BY <1>1, <1>2 DEF Inspected, IsCurrent
  <2>2. Worth(s, Copy(OwnKey, clock))
    BY <1>2, <2>1, AskedIsWorth, CurrentIsHonest, OriginIsPast DEF CopiesInv
  <2> QED BY <2>1, <2>2, JustLooked, ServingIsWell
<1>3. CASE ~IsCurrent(s, version)
  BY <1>1, <1>3, ServedStays
<1> QED BY <1>2, <1>3

LEMMA CopyZipIsWell ==
  ASSUME CopiesInv, ServedOK, Grows, NEW w \in Crawlers, NEW s \in Sources, CopyZip(w, s)
  PROVE  ServedOK'
<1> DEFINE cached == CachedMaterialization(s)
           looked == Copy(cached.object, clock)
<1>1. cached # None => /\ cached \in HonestSnapshots(s) /\ cached.object \in Nat \cup {OwnKey}
                       /\ Honest(s, cached.label, cached.object)
  BY CachedIsSnapshot DEF Snapshot
<1>2. \/ cached # None /\ cached.label = Origin(s) /\ Serve(w, s, looked, clock, TRUE)
      \/ cached # None /\ Fresh(cached.uploaded) /\ Serve(w, s, cached, clock, TRUE)
      \/ cached # None /\ Serve(w, s, cached, clock, FALSE)
      \/ UNCHANGED served
  BY DEF CopyZip
<1>3. CASE cached # None /\ cached.label = Origin(s) /\ Serve(w, s, looked, clock, TRUE)
  <2>1. Worth(s, looked)
    BY <1>1, <1>3, AskedIsWorth
  <2> QED BY <1>3, <2>1, JustLooked, ServingIsWell
<1>4. CASE \/ cached # None /\ Fresh(cached.uploaded) /\ Serve(w, s, cached, clock, TRUE)
           \/ cached # None /\ Serve(w, s, cached, clock, FALSE)
  <2>1. Worth(s, cached) /\ clock \in Nat /\ (Fresh(cached.uploaded) => clock < cached.uploaded + TTL)
    BY <1>1, <1>4, SnapshotIsWorth, FreshIsInTime DEF CopiesInv, TimeOK
  <2> HIDE DEF cached
  <2> QED BY <1>4, <2>1, ServingIsWell
<1>5. CASE UNCHANGED served
  BY <1>5, ServedStays
<1> QED BY <1>2, <1>3, <1>4, <1>5

LEMMA CopyDriveIsWell ==
  ASSUME CopiesInv, ServedOK, Grows, NEW w \in Crawlers, NEW s \in Sources, CopyDrive(w, s)
  PROVE  ServedOK'
<1> DEFINE cached == CachedMaterialization(s)
           looked == Copy(cached.object, clock)
           byListing == Copy(OwnKey, crawl[w].asked)
<1>1. cached # None => /\ cached \in HonestSnapshots(s) /\ cached.object \in Nat \cup {OwnKey}
                       /\ Honest(s, cached.label, cached.object)
  BY CachedIsSnapshot DEF Snapshot
<1>2. \/ cached # None /\ cached.label = Origin(s) /\ Serve(w, s, looked, clock, TRUE)
      \/ cached # None /\ Fresh(cached.uploaded) /\ Serve(w, s, cached, clock, TRUE)
      \/ cached # None /\ Serve(w, s, cached, clock, FALSE)
      \/ IsCurrent(s, crawl[w].listing[s]) /\ Serve(w, s, byListing, clock, TRUE)
      \/ UNCHANGED served
  BY DEF CopyDrive
<1>3. CASE cached # None /\ cached.label = Origin(s) /\ Serve(w, s, looked, clock, TRUE)
  <2>1. Worth(s, looked)
    BY <1>1, <1>3, AskedIsWorth
  <2> QED BY <1>3, <2>1, JustLooked, ServingIsWell
<1>4. CASE \/ cached # None /\ Fresh(cached.uploaded) /\ Serve(w, s, cached, clock, TRUE)
           \/ cached # None /\ Serve(w, s, cached, clock, FALSE)
  <2>1. Worth(s, cached) /\ clock \in Nat /\ (Fresh(cached.uploaded) => clock < cached.uploaded + TTL)
    BY <1>1, <1>4, SnapshotIsWorth, FreshIsInTime DEF CopiesInv, TimeOK
  <2> HIDE DEF cached
  <2> QED BY <1>4, <2>1, ServingIsWell
<1>5. CASE IsCurrent(s, crawl[w].listing[s]) /\ Serve(w, s, byListing, clock, TRUE)
  <2>1. Worth(s, byListing)
    BY <1>5, ListedIsWorth DEF CopyDrive
  <2> QED BY <1>5, <2>1, JustLooked, ServingIsWell
<1>6. CASE UNCHANGED served
  BY <1>6, ServedStays
<1> QED BY <1>2, <1>3, <1>4, <1>5, <1>6

LEMMA FinishCopyIsWell ==
  ASSUME CopiesInv, ServedOK, Grows, NEW w \in Crawlers, FinishCopy(w) PROVE ServedOK'
<1> DEFINE s == crawl[w].source
           o == IF ToVersionedKey(w) THEN VersionOf(w) ELSE OwnKey
           checked == crawl[w].checked
<1>1. crawl[w].step = "stored" /\ Serve(w, s, Copy(o, checked), checked, TRUE)
  BY DEF FinishCopy
<1>2. /\ s \in Sources /\ checked \in Nat /\ checked <= clock /\ clock \in Nat
      /\ Worth(s, Copy(o, checked)) /\ Copy(o, checked).uploaded = clock
  BY <1>1, FinishedIsWorth DEF Copy
<1> HIDE DEF s, o, checked
<1>3. checked < Copy(o, checked).uploaded + TTL
  BY <1>2, CopiesAssumption
<1> QED BY <1>1, <1>2, <1>3, ServingIsWell

LEMMA KeepCopyIsWell ==
  ASSUME CopiesInv, ServedOK, Grows, NEW w \in Crawlers, KeepCopy(w) PROVE ServedOK'
<1> DEFINE s == crawl[w].source
           c == crawl[w].cached
           checked == crawl[w].checked
<1>1. /\ s \in Sources /\ checked \in Nat /\ c \in HonestSnapshots(s)
      /\ Serve(w, s, c, checked, FALSE)
  BY ACrawl DEF KeepCopy, CrawlSound, CrawlRecord
<1> HIDE DEF s, c, checked
<1> QED BY <1>1, SnapshotIsWorth, ServingIsWell

LEMMA ServedStep == ASSUME CopiesInv, ServedOK, [CopiesNext]_copiesVars PROVE ServedOK'
<1>1. Grows
  BY CopiesInvStep
<1>2. CASE \/ UNCHANGED copiesVars \/ Tick
           \/ \E w \in Crawlers : \/ Discover(w) \/ PutGroups(w) \/ PutManifest(w) \/ Download(w)
                                  \/ UploadPlain(w) \/ UploadVersioned(w) \/ Abandon(w)
  <2>1. UNCHANGED served
    BY <1>2 DEF copiesVars, Tick, Discover, PutGroups, PutManifest, Download, UploadPlain,
                UploadVersioned, Abandon
  <2> QED BY <1>1, <2>1, ServedStays
<1>3. ASSUME NEW w \in Crawlers, LoadDiscovery(w) PROVE ServedOK'
  BY <1>1, <1>3, ServedWellStays DEF LoadDiscovery, ServedOK
<1>4. ASSUME NEW w \in Crawlers, NEW s \in Sources, CopyHttp(w, s) \/ CopyDrive(w, s) \/ CopyZip(w, s)
      PROVE  ServedOK'
  BY <1>1, <1>4, CopyHttpIsWell, CopyDriveIsWell, CopyZipIsWell
<1>5. ASSUME NEW w \in Crawlers, KeepCopy(w) \/ FinishCopy(w) PROVE ServedOK'
  BY <1>1, <1>5, KeepCopyIsWell, FinishCopyIsWell
<1> QED BY <1>2, <1>3, <1>4, <1>5 DEF CopiesNext

(* What a handed on copy lacks was changed after its origin was last asked *)
(* about it, and, unless something failed, at most TTL before the crawl    *)
(* looked or before the copy was stored, whoever filled the caches.        *)
THEOREM ServedAlwaysRecent == CopiesSpec => []ServedIsRecent
<1>1. CopiesInit => ServedOK
  BY DEF CopiesInit, ServedOK
<1>2. CopiesInv /\ ServedOK => ServedIsRecent
  <2> SUFFICES ASSUME CopiesInv, ServedOK, NEW w \in Crawlers, NEW r \in served[w],
                      NEW i \in 1..Len(changes[r.source]), NEW change, change = changes[r.source][i],
                      change > r.content, ~r.late
               PROVE  /\ change > r.asked
                      /\ r.calm => change + TTL > r.checked \/ change <= r.stored
    BY DEF ServedIsRecent
  <2>1. ServedWell(r) /\ r.source \in Sources
    BY DEF ServedOK, ServedWell
  <2>2. change \in Past(r.source) /\ change \in Nat /\ TTL \in Nat
    BY <2>1, OriginIsPast, CopiesAssumption DEF Past, CopiesInv
  <2>3. ~(change <= r.content)
    <3>1. r.content \in Nat
      BY <2>1 DEF ServedWell
    <3> QED BY <2>2, <3>1
  <2>4. ~(change <= r.asked)
    BY <2>1, <2>2, <2>3 DEF ServedWell, Recent
  <2>5. /\ r.asked \in Nat /\ r.stored \in Nat /\ r.checked \in Nat
        /\ r.calm => r.checked < r.stored + TTL
    BY <2>1 DEF ServedWell
  <2>6. change > r.asked
    BY <2>2, <2>4, <2>5
  <2>7. ASSUME r.calm, ~(change <= r.stored) PROVE change + TTL > r.checked
    BY <2>2, <2>5, <2>7
  <2> QED BY <2>6, <2>7
<1> QED BY <1>1, <1>2, ServedStep, CopiesInvariant, PTL DEF CopiesSpec

-----------------------------------------------------------------------------
(* The listing of the page.                                                *)

\* What was found on the page itself is there, unless the page changed since
\* it was asked for.
Lists(g, asked) == page.modified <= asked => (DOMAIN g) \ UnderRoot = page.links \ UnderRoot
ListedOK ==
  /\ manifest # None => Lists(manifest.generation, manifest.asked)
  /\ \A w \in Crawlers : crawl[w].step \in {"groups", "manifest"} => Lists(crawl[w].listing, crawl[w].asked)

\* Steps of one crawler, to a step of another part of the crawl.
LEMMA OtherStep ==
  ASSUME CopiesInv, ListedOK, UNCHANGED <<page, manifest>>, NEW w \in Crawlers, NEW r,
         crawl' = [crawl EXCEPT ![w] = r],
         r.step \in {"groups", "manifest"} => Lists(r.listing, r.asked)
  PROVE  ListedOK'
<1>1. \A v \in Crawlers : crawl'[v] = IF v = w THEN r ELSE crawl[v]
  BY DEF CopiesInv, CrawlsOK
<1> QED BY <1>1 DEF ListedOK, Lists

LEMMA UsesListing ==
  ASSUME NEW w, NEW found, NEW calm, UseListing(w, found, calm)
  PROVE  \E r : crawl' = [crawl EXCEPT ![w] = r] /\ r.step = "copy"
<1> DEFINE r == [IdleCrawl EXCEPT !.step = "copy", !.listing = found.generation, !.asked = found.asked,
                   !.todo = DOMAIN found.generation, !.calm = calm, !.expired = ~Fresh(found.uploaded)]
<1>1. crawl' = [crawl EXCEPT ![w] = r] /\ r.step = "copy"
  BY DEF UseListing, IdleCrawl
<1> QED BY <1>1

LEMMA ListedStep == ASSUME CopiesInv, ListedOK, [CopiesNext]_copiesVars PROVE ListedOK'
<1>1. clock \in Nat /\ page.modified \in Nat
  BY DEF CopiesInv, TimeOK
<1>2. CASE Tick
  <2>1. UNCHANGED <<manifest, crawl>>
    BY <1>2 DEF Tick, indexVars
  <2>2. ASSUME NEW g, NEW t \in Nat, t <= clock, Lists(g, t) PROVE Lists(g, t)'
    <3>1. page'.modified = clock + 1 \/ (page'.modified = page.modified /\ page'.links \ UnderRoot = page.links \ UnderRoot)
      BY <1>2 DEF Tick
    <3>2. ~(clock + 1 <= t)
      BY <1>1, <2>2
    <3> QED BY <2>2, <3>1, <3>2 DEF Lists
  <2>3. manifest # None => manifest.asked \in Nat /\ manifest.asked <= clock
    BY DEF CopiesInv, IndexOK, Found, Manifest, AskedAt
  <2>4. \A w \in Crawlers : crawl[w].asked \in Nat /\ crawl[w].asked <= clock
    BY ACrawl DEF CrawlRecord, CrawlSound, AskedAt
  <2> QED BY <2>1, <2>2, <2>3, <2>4 DEF ListedOK
<1>3. ASSUME NEW w \in Crawlers, LoadDiscovery(w) PROVE ListedOK'
  <2>1. UNCHANGED <<page, manifest>>
    BY <1>3 DEF LoadDiscovery, originVars, indexVars
  <2>2. \E r : crawl' = [crawl EXCEPT ![w] = r] /\ r.step \in {"discover", "copy"}
    <3> DEFINE r == [IdleCrawl EXCEPT !.step = "discover", !.cached = CachedDiscovery]
    <3>1. r.step = "discover"
      BY DEF IdleCrawl
    <3>2. \/ crawl' = [crawl EXCEPT ![w] = r]
          \/ \E calm : UseListing(w, CachedDiscovery, calm)
      BY <1>3 DEF LoadDiscovery
    <3> HIDE DEF r
    <3> QED BY <3>1, <3>2, UsesListing
  <2> QED BY <2>1, <2>2, OtherStep
<1>4. ASSUME NEW w \in Crawlers, Discover(w) PROVE ListedOK'
  <2>1. UNCHANGED <<page, manifest>>
    BY <1>4 DEF Discover, originVars, indexVars
  <2>2. CASE crawl' = [crawl EXCEPT ![w].step = "groups", ![w].cached = None,
                                    ![w].listing = [s \in page.links |-> Origin(s)], ![w].asked = clock]
    <3> DEFINE g == [s \in page.links |-> Origin(s)]
    <3> PICK r : r = [crawl[w] EXCEPT !.step = "groups", !.cached = None, !.listing = g, !.asked = clock]
      OBVIOUS
    <3>1. crawl' = [crawl EXCEPT ![w] = r]
      BY <2>2
    <3>2. r.listing = g /\ DOMAIN g = page.links
      BY ACrawl DEF CrawlRecord
    <3> QED BY <2>1, <3>1, <3>2, OtherStep DEF Lists
  <2>3. CASE UseListing(w, crawl[w].cached, FALSE)
    BY <2>1, <2>3, UsesListing, OtherStep
  <2> QED BY <1>4, <2>2, <2>3 DEF Discover
<1>5. ASSUME NEW w \in Crawlers, PutGroups(w) PROVE ListedOK'
  <2> PICK r : r = [crawl[w] EXCEPT !.step = "manifest"]
    OBVIOUS
  <2>1. UNCHANGED <<page, manifest>> /\ crawl' = [crawl EXCEPT ![w] = r] /\ crawl[w].step = "groups"
    BY <1>5 DEF PutGroups, originVars
  <2>2. r.listing = crawl[w].listing /\ r.asked = crawl[w].asked
    BY ACrawl DEF CrawlRecord
  <2> QED BY <2>1, <2>2, OtherStep DEF ListedOK
<1>6. ASSUME NEW w \in Crawlers, PutManifest(w) PROVE ListedOK'
  <2>1. /\ UNCHANGED page /\ manifest' = Discovered(w) /\ UseListing(w, Discovered(w), TRUE)
        /\ Lists(crawl[w].listing, crawl[w].asked)
    BY <1>6 DEF PutManifest, originVars, ListedOK
  <2>2. PICK r : crawl' = [crawl EXCEPT ![w] = r] /\ r.step = "copy"
    BY <2>1, UsesListing
  <2>3. \A v \in Crawlers : crawl'[v] = IF v = w THEN r ELSE crawl[v]
    BY <2>2 DEF CopiesInv, CrawlsOK
  <2> QED BY <2>1, <2>2, <2>3 DEF ListedOK, Lists, Discovered
<1>7. ASSUME NEW w \in Crawlers, NEW s, NEW copy, NEW checked, NEW calm, Serve(w, s, copy, checked, calm),
             UNCHANGED <<page, manifest>>
      PROVE  ListedOK'
  <2> PICK r : r = [IdleCrawl EXCEPT
         !.step = IF crawl[w].todo = {s} THEN "idle" ELSE "copy", !.listing = crawl[w].listing,
         !.asked = crawl[w].asked, !.todo = crawl[w].todo \ {s}, !.calm = crawl[w].calm,
         !.expired = crawl[w].expired]
    OBVIOUS
  <2>1. crawl' = [crawl EXCEPT ![w] = r] /\ r.step \in {"idle", "copy"}
    BY <1>7 DEF Serve, IdleCrawl
  <2> QED BY <1>7, <2>1, OtherStep
<1>8. ASSUME NEW w \in Crawlers, NEW s, NEW cached, NEW version, Go(w, s, "download", cached, version),
             UNCHANGED <<page, manifest>>
      PROVE  ListedOK'
  <2> PICK r : r = [crawl[w] EXCEPT !.step = "download", !.source = s, !.cached = cached,
                      !.version = version, !.checked = clock]
    OBVIOUS
  <2>1. crawl' = [crawl EXCEPT ![w] = r] /\ r.step = "download"
    BY <1>8, ACrawl DEF Go, CrawlRecord
  <2> QED BY <1>8, <2>1, OtherStep
<1>9. ASSUME NEW w \in Crawlers, NEW s \in Sources, CopyHttp(w, s) \/ CopyDrive(w, s) \/ CopyZip(w, s)
      PROVE  ListedOK'
  <2>1. UNCHANGED <<page, manifest>>
    BY <1>9 DEF CopyHttp, CopyDrive, CopyZip, originVars, indexVars
  <2>2. CopyHttp(w, s) => ListedOK'
    BY <1>7, <1>8, <2>1 DEF CopyHttp
  <2>3. CopyZip(w, s) => ListedOK'
    BY <1>7, <1>8, <2>1 DEF CopyZip
  <2>4. CopyDrive(w, s) => ListedOK'
    BY <1>7, <1>8, <2>1 DEF CopyDrive
  <2> QED BY <1>9, <2>2, <2>3, <2>4
<1>10. ASSUME NEW w \in Crawlers, Download(w) \/ UploadPlain(w) \/ UploadVersioned(w) \/ Abandon(w)
       PROVE  ListedOK'
  <2>1. UNCHANGED <<page, manifest>>
    BY <1>10 DEF Download, UploadPlain, UploadVersioned, Abandon, originVars, indexVars
  <2>2. PICK r : crawl' = [crawl EXCEPT ![w] = r] /\ r.step \in {"upload", "stored", "idle"}
    <3>1. CASE Download(w)
      <4> PICK r : r = [crawl[w] EXCEPT !.step = "upload", !.content = Origin(crawl[w].source),
                                        !.version = ResponseVersion(w)]
        OBVIOUS
      <4>1. crawl' = [crawl EXCEPT ![w] = r] /\ r.step = "upload"
        BY <3>1, ACrawl DEF Download, CrawlRecord
      <4> QED BY <4>1
    <3>2. CASE UploadPlain(w) \/ UploadVersioned(w)
      <4> PICK r : r = [crawl[w] EXCEPT !.step = "stored"]
        OBVIOUS
      <4>1. crawl' = [crawl EXCEPT ![w] = r] /\ r.step = "stored"
        BY <3>2, ACrawl DEF UploadPlain, UploadVersioned, CrawlRecord
      <4> QED BY <4>1
    <3>3. CASE Abandon(w)
      <4>1. crawl' = [crawl EXCEPT ![w] = IdleCrawl] /\ IdleCrawl.step = "idle"
        BY <3>3 DEF Abandon, IdleCrawl
      <4> QED BY <4>1
    <3> QED BY <1>10, <3>1, <3>2, <3>3
  <2> QED BY <2>1, <2>2, OtherStep
<1>11. ASSUME NEW w \in Crawlers, KeepCopy(w) \/ FinishCopy(w) PROVE ListedOK'
  <2>1. UNCHANGED <<page, manifest>>
    BY <1>11 DEF KeepCopy, FinishCopy, originVars, indexVars
  <2>2. \E s, copy, checked, calm : Serve(w, s, copy, checked, calm)
    BY <1>11 DEF KeepCopy, FinishCopy
  <2> QED BY <1>7, <2>1, <2>2
<1>12. CASE UNCHANGED copiesVars
  BY <1>12 DEF copiesVars, originVars, indexVars, ListedOK, Lists
<1> QED BY <1>2, <1>3, <1>4, <1>5, <1>6, <1>9, <1>10, <1>11, <1>12 DEF CopiesNext

\* Only LoadDiscovery wakes an idle crawler.
LEMMA IdleStep ==
  ASSUME CopiesInv, [CopiesNext]_copiesVars, NEW w \in Crawlers,
         crawl[w].step = "idle", crawl'[w].step = "copy"
  PROVE  LoadDiscovery(w)
<1>1. crawl'[w] # crawl[w]
  BY DEF CopiesInv
<1>2. ASSUME NEW v \in Crawlers, v # w, NEW r, crawl' = [crawl EXCEPT ![v] = r] PROVE FALSE
  BY <1>1, <1>2 DEF CopiesInv, CrawlsOK
<1>3. ASSUME NEW v \in Crawlers, v # w, LoadDiscovery(v) PROVE FALSE
  BY <1>2, <1>3 DEF LoadDiscovery, UseListing
<1>4. ASSUME NEW v \in Crawlers, NEW s \in Sources, CopyHttp(v, s) \/ CopyDrive(v, s) \/ CopyZip(v, s)
      PROVE  FALSE
  <2>1. v # w
    BY <1>4 DEF CopyHttp, CopyDrive, CopyZip
  <2>2. ASSUME NEW copy, NEW checked, NEW calm, Serve(v, s, copy, checked, calm) PROVE FALSE
    BY <1>2, <2>1, <2>2 DEF Serve
  <2>3. ASSUME NEW cached, NEW version, Go(v, s, "download", cached, version) PROVE FALSE
    <3>1. crawl' = [crawl EXCEPT ![v] = [crawl[v] EXCEPT !.step = "download", !.source = s,
                      !.cached = cached, !.version = version, !.checked = clock]]
      BY <2>3 DEF Go
    <3> QED BY <1>2, <2>1, <3>1
  <2>4. CopyHttp(v, s) => FALSE
    BY <2>2, <2>3 DEF CopyHttp
  <2>5. CopyZip(v, s) => FALSE
    BY <2>2, <2>3 DEF CopyZip
  <2>6. CopyDrive(v, s) => FALSE
    BY <2>2, <2>3 DEF CopyDrive
  <2> QED BY <1>4, <2>4, <2>5, <2>6
<1>5. ASSUME NEW v \in Crawlers, \/ Discover(v) \/ PutGroups(v) \/ PutManifest(v) \/ Download(v)
               \/ KeepCopy(v) \/ UploadPlain(v) \/ UploadVersioned(v) \/ FinishCopy(v) \/ Abandon(v)
      PROVE  FALSE
  <2>1. v # w
    BY <1>5 DEF Discover, PutGroups, PutManifest, Download, KeepCopy, UploadPlain, UploadVersioned,
                FinishCopy, Abandon
  <2> QED BY <1>2, <1>5, <2>1 DEF Discover, PutGroups, PutManifest, Download, KeepCopy, UploadPlain,
                UploadVersioned, FinishCopy, Abandon, Serve, UseListing
<1>6. CASE Tick \/ UNCHANGED copiesVars
  BY <1>1, <1>6 DEF Tick, copiesVars
<1> QED BY <1>3, <1>4, <1>5, <1>6 DEF CopiesNext

(* A discovery that is used because HEAD said that the page has not        *)
(* changed since lists what the page itself links to, unless the page      *)
(* changed while it was being crawled.                                     *)
THEOREM ConfirmedListingsCurrent == CopiesSpec => ConfirmedListingIsCurrent
<1>1. CopiesInit => ListedOK
  BY DEF CopiesInit, ListedOK, IdleCrawl
<1>2. ASSUME CopiesInv, ListedOK, [CopiesNext]_copiesVars, NEW w \in Crawlers,
             crawl[w].step = "idle", crawl'[w].step = "copy", crawl'[w].calm, crawl'[w].expired,
             PageDated, ~(manifest.asked < page.modified /\ page.modified <= manifest.uploaded)
      PROVE  (DOMAIN crawl'[w].listing) \ UnderRoot = page.links \ UnderRoot
  <2> DEFINE cached == CachedDiscovery
  <2>1. LoadDiscovery(w) /\ DOMAIN crawl = Crawlers
    BY <1>2, IdleStep DEF CopiesInv, CrawlsOK
  <2>2. cached # None => cached = manifest /\ manifest # None /\ manifest.uploaded \in Nat
                         /\ manifest.asked \in Nat
    BY <1>2 DEF CachedDiscovery, CopiesInv, IndexOK, Found, Manifest
  <2>3. \/ crawl'[w].step = "discover"
        \/ /\ cached # None /\ crawl'[w].listing = cached.generation
           /\ \/ crawl'[w].expired = ~Fresh(cached.uploaded) /\ Fresh(cached.uploaded)
              \/ crawl'[w].calm = FALSE \/ ~PageIsNewer(cached)
    <3>1. \/ crawl' = [crawl EXCEPT ![w] = [IdleCrawl EXCEPT !.step = "discover", !.cached = cached]]
          \/ /\ cached # None
             /\ \E calm : /\ UseListing(w, cached, calm)
                          /\ Fresh(cached.uploaded) \/ calm = FALSE \/ ~PageIsNewer(cached)
      BY <2>1 DEF LoadDiscovery
    <3>2. ASSUME NEW calm, UseListing(w, cached, calm)
          PROVE  /\ crawl'[w].listing = cached.generation /\ crawl'[w].calm = calm
                 /\ crawl'[w].expired = ~Fresh(cached.uploaded)
      BY <2>1, <3>2 DEF UseListing, IdleCrawl
    <3>3. crawl' = [crawl EXCEPT ![w] = [IdleCrawl EXCEPT !.step = "discover", !.cached = cached]]
            => crawl'[w].step = "discover"
      BY <2>1 DEF IdleCrawl
    <3> HIDE DEF cached
    <3> QED BY <3>1, <3>2, <3>3
  <2>4. page.modified \in Nat
    BY <1>2 DEF CopiesInv, TimeOK
  <2>5. cached = manifest /\ crawl'[w].listing = manifest.generation /\ ~PageIsNewer(manifest)
    BY <1>2, <2>2, <2>3
  <2>6. page.modified <= manifest.asked
    BY <1>2, <2>2, <2>3, <2>4, <2>5 DEF PageIsNewer
  <2> QED BY <1>2, <2>2, <2>3, <2>5, <2>6 DEF ListedOK, Lists
<1>3. CopiesInv /\ ListedOK /\ [CopiesNext]_copiesVars =>
        [\A w \in Crawlers :
           /\ crawl[w].step = "idle" /\ crawl'[w].step = "copy" /\ crawl'[w].calm /\ crawl'[w].expired
           /\ PageDated /\ ~(manifest.asked < page.modified /\ page.modified <= manifest.uploaded)
           => (DOMAIN crawl'[w].listing) \ UnderRoot = page.links \ UnderRoot]_copiesVars
  BY <1>2
<1> QED BY <1>1, <1>3, ListedStep, CopiesInvariant, PTL DEF CopiesSpec, ConfirmedListingIsCurrent

=============================================================================
