------------------------- MODULE ObjectUploadsProofs -------------------------
(***************************************************************************)
(* Proofs about ObjectUploads: for any number of workers, changes of the   *)
(* source, tries, and sizes of its files.                                  *)
(***************************************************************************)
EXTENDS ObjectUploads, SequenceTheorems, TLAPS

WriterSteps == {"idle", "check", "stage", "upload", "answered", "failed"}
WriterRecord == [step : WriterSteps, kind : Kinds, modified : {Undated} \cup Nat, staged : Nat,
                 position : Nat, sent : Seq(Nat \X Nat), tries : Nat]
Stored == [content : Nat, data : Seq(Nat \X Nat), at : Nat, late : BOOLEAN]

\* The first n buffers of a file.
Prefix(content, n) == [i \in 1..n |-> <<content, i>>]

\* What is stored is whole, and its time is that of its content if it is not
\* late.
ObjectSound(o, t) ==
  /\ o \in Stored /\ o.content \in 0..t /\ o.at \in 0..t /\ o.data = File(o.content)
  /\ o.late \/ o.content = o.at

\* What a worker holds: its copy is no older than what it was told of, and
\* what it has sent so far is the beginning of that copy.
Held(r, t) ==
  /\ r \in WriterRecord /\ r.staged \in 0..t
  /\ r.modified # Undated => r.modified <= r.staged
  /\ r.kind \in {"parquet", "merged"} => r.modified = 0
  /\ r.step \in {"check", "stage", "upload"} =>
       r.position <= PartsOf[r.staged] /\ r.sent = Prefix(r.staged, r.position)
  /\ r.step \in {"check", "stage"} => r.position = 0

\* A worker that answered is backed by what is stored.
Backed(r, o) ==
  r.step = "answered" /\ r.kind # "crawled" =>
    o # NoObject /\ (r.modified # Undated => o.content >= r.modified \/ o.late)

UploadInv ==
  /\ key \in DOMAIN KindsOf /\ now \in 0..MaxChanges
  /\ object = NoObject \/ ObjectSound(object, now)
  /\ DOMAIN writer = Writers
  /\ \A w \in Writers : Held(writer[w], now) /\ Backed(writer[w], object)

-----------------------------------------------------------------------------
(* A worker that has sent nothing, and one that has sent a buffer more.     *)
LEMMA NothingSentYet == ASSUME NEW c \in 0..MaxChanges PROVE Prefix(c, 0) = <<>> /\ 0 <= PartsOf[c]
<1>1. PartsOf[c] \in Nat
  BY UploadsAssumption
<1> QED BY <1>1 DEF Prefix

LEMMA PrefixesAreSequences ==
  ASSUME NEW c \in Nat, NEW n \in Nat
  PROVE  /\ Prefix(c, n) \in Seq(Nat \X Nat) /\ Len(Prefix(c, n)) = n
         /\ Append(Prefix(c, n), <<c, n + 1>>) = Prefix(c, n + 1)
<1>1. \A m \in Nat : Prefix(c, m) \in Seq(Nat \X Nat) /\ Len(Prefix(c, m)) = m
  BY DEF Prefix
<1>2. n + 1 \in Nat /\ <<c, n + 1>> \in Nat \X Nat
  OBVIOUS
<1>3. Append(Prefix(c, n), <<c, n + 1>>) = Prefix(c, n + 1)
  <2> DEFINE p == Prefix(c, n)
             e == <<c, n + 1>>
             s == Append(p, e)
  <2>1. /\ p \in Seq(Nat \X Nat) /\ Len(p) = n /\ e \in Nat \X Nat
        /\ \A i \in 1..n : p[i] = <<c, i>>
    BY <1>1, <1>2 DEF Prefix
  <2> HIDE DEF p, e
  <2>2. /\ s \in Seq(Nat \X Nat) /\ Len(s) = n + 1
        /\ \A i \in 1..n : s[i] = p[i]
        /\ s[n + 1] = e
    BY <2>1, AppendProperties
  <2> HIDE DEF s
  <2>3. \A i \in 1..(n + 1) : s[i] = <<c, i>>
    BY <2>1, <2>2 DEF e
  <2>4. DOMAIN s = 1..(n + 1) /\ s = [i \in DOMAIN s |-> s[i]]
    BY <2>2, LenProperties
  <2> QED BY <2>3, <2>4 DEF Prefix, p, e, s
<1> QED BY <1>1, <1>3 DEF Prefix

LEMMA FilesArePrefixes ==
  ASSUME NEW c \in 0..MaxChanges
  PROVE  /\ File(c) = Prefix(c, PartsOf[c]) /\ PartsOf[c] \in Nat \ {0}
         /\ File(c) \in Seq(Nat \X Nat)
<1>1. PartsOf[c] \in Nat \ {0} /\ c \in Nat
  BY UploadsAssumption
<1> QED BY <1>1, PrefixesAreSequences DEF File, Prefix

(* What Held says of a worker at rest.                                     *)
LEMMA RestingHolds == ASSUME NEW t \in Nat PROVE Held(Resting, t)
<1>1. <<>> \in Seq(Nat \X Nat)
  BY EmptySeq
<1>2. Resting \in WriterRecord
  BY <1>1 DEF Resting, WriterRecord, WriterSteps, Kinds, KindsOf
<1> QED BY <1>2 DEF Held, Resting

(* A worker's new record, and the others as they were.                     *)
LEMMA OneWriter ==
  ASSUME UploadInv, NEW w \in Writers, NEW r, writer' = [writer EXCEPT ![w] = r],
         Held(r, now), Backed(r, object'), UNCHANGED <<key, now>>,
         object' = NoObject \/ ObjectSound(object', now),
         \A x \in Writers \ {w} : Backed(writer[x], object')
  PROVE  UploadInv'
  BY DEF UploadInv

(* A file that is stored backs every answer, that of another upload's      *)
(* worker too: it holds the latest content or is late.                     *)
LEMMA PutIsSound ==
  ASSUME UploadInv, NEW w \in Writers, NEW data, Put(w, data), data = File(writer[w].staged)
  PROVE  /\ ObjectSound(object', now) /\ object' # NoObject
         /\ \A r : Held(r, now) /\ r.modified # Undated => object'.content >= r.modified \/ object'.late
<1>1. writer[w].staged \in 0..now /\ now \in 0..MaxChanges /\ MaxChanges \in Nat
  BY UploadsAssumption DEF UploadInv, Held
<1>2. data \in Seq(Nat \X Nat)
  BY <1>1, FilesArePrefixes
<1>3. PICK o : o = object' /\ o = [content |-> writer[w].staged, data |-> data, at |-> now,
                                   late |-> writer[w].staged # now]
  BY DEF Put
<1>4. o \in Stored /\ o.content = writer[w].staged /\ o.data = data /\ o.at = now
  BY <1>1, <1>2, <1>3 DEF Stored
<1>5. o.late \/ o.content = now
  <2> DEFINE l == writer[w].staged # now
  <2>1. l \in BOOLEAN /\ o = [content |-> writer[w].staged, data |-> data, at |-> now, late |-> l]
    BY <1>3
  <2>2. l \/ writer[w].staged = now
    OBVIOUS
  <2> HIDE DEF l
  <2>3. o.late = l
    BY <2>1
  <2> QED BY <1>4, <2>2, <2>3
<1>6. o # NoObject
  BY <1>4, UploadsAssumption DEF Stored
<1>7. ObjectSound(o, now)
  BY <1>1, <1>4, <1>5 DEF ObjectSound
<1>8. ASSUME NEW r, Held(r, now), r.modified # Undated PROVE o.content >= r.modified \/ o.late
  <2>1. r.modified \in Nat /\ r.staged \in 0..now /\ r.modified <= r.staged
    BY <1>8 DEF Held, WriterRecord
  <2> QED BY <1>1, <1>4, <1>5, <2>1
<1> QED BY <1>3, <1>8, <1>6, <1>7

-----------------------------------------------------------------------------
(* A worker goes on to its next step with what it has.                     *)
LEMMA GoesKeepsHeld ==
  ASSUME UploadInv, NEW w \in Writers, NEW step \in WriterSteps, Goes(w, step), UNCHANGED <<key, now>>,
         step \in {"check", "stage", "upload"} => writer[w].step \in {"check", "stage"},
         object' = NoObject \/ ObjectSound(object', now),
         step = "answered" /\ writer[w].kind # "crawled" =>
           /\ object' # NoObject
           /\ writer[w].modified # Undated => object'.content >= writer[w].modified \/ object'.late,
         \A x \in Writers \ {w} : Backed(writer[x], object')
  PROVE  UploadInv'
<1> DEFINE r == [writer[w] EXCEPT !.step = step]
<1>1. Held(writer[w], now) /\ writer[w] \in WriterRecord
  BY DEF UploadInv, Held
<1>2. /\ r \in WriterRecord /\ r.step = step /\ r.kind = writer[w].kind /\ r.modified = writer[w].modified
      /\ r.staged = writer[w].staged /\ r.position = writer[w].position /\ r.sent = writer[w].sent
  BY <1>1 DEF WriterRecord
<1>3. writer' = [writer EXCEPT ![w] = r]
  BY DEF Goes
<1> HIDE DEF r
<1>4. Held(r, now)
  BY <1>1, <1>2 DEF Held
<1>5. Backed(r, object')
  BY <1>2 DEF Backed
<1> QED BY <1>3, <1>4, <1>5, OneWriter

LEMMA GoesKeepsInv ==
  ASSUME UploadInv, NEW w \in Writers, NEW step \in WriterSteps, Goes(w, step),
         UNCHANGED <<key, now, object>>,
         step \in {"check", "stage", "upload"} => writer[w].step \in {"check", "stage"},
         step = "answered" /\ writer[w].kind # "crawled" =>
           /\ object # NoObject
           /\ writer[w].modified # Undated => object.content >= writer[w].modified \/ object.late
  PROVE  UploadInv'
<1>1. object = NoObject \/ ObjectSound(object, now)
  BY DEF UploadInv
<1>2. \A x \in Writers \ {w} : Backed(writer[x], object)
  BY DEF UploadInv
<1> QED BY <1>1, <1>2, GoesKeepsHeld

LEMMA StartKeepsInv == ASSUME UploadInv, NEW w \in Writers, StartWrite(w) PROVE UploadInv'
<1>1. PICK kind \in KindsOf[key], modified \in {Undated} \cup 0..now :
        /\ kind = "drive" => modified # Undated
        /\ kind \in {"parquet", "merged"} => modified = 0
        /\ writer' = [writer EXCEPT ![w] = [Resting EXCEPT
             !.kind = kind, !.modified = modified, !.staged = now,
             !.step = CASE kind = "crawled" -> "answered"
                        [] kind \in {"local", "drive", "parquet"} -> "check"
                        [] OTHER -> "stage"]]
  BY DEF StartWrite
<1>2. UNCHANGED <<key, now, object>> /\ now \in Nat /\ now \in 0..MaxChanges
  BY UploadsAssumption DEF StartWrite, UploadInv
<1>3. kind \in Kinds
  BY DEF UploadInv, Kinds
<1> DEFINE step == CASE kind = "crawled" -> "answered"
                     [] kind \in {"local", "drive", "parquet"} -> "check"
                     [] OTHER -> "stage"
           r == [Resting EXCEPT !.kind = kind, !.modified = modified, !.staged = now, !.step = step]
<1>4. step \in {"answered", "check", "stage"} /\ (step = "answered" => kind = "crawled")
  OBVIOUS
<1>5. writer' = [writer EXCEPT ![w] = r]
  BY <1>1
<1> HIDE DEF step
<1>6. Resting \in WriterRecord /\ Resting.position = 0 /\ Resting.sent = <<>>
  BY RestingHolds DEF Held, Resting
<1>7. /\ r \in WriterRecord /\ r.kind = kind /\ r.modified = modified /\ r.staged = now /\ r.step = step
      /\ r.position = 0 /\ r.sent = <<>>
  <2>1. modified \in {Undated} \cup Nat /\ step \in WriterSteps
    BY <1>2, <1>4 DEF WriterSteps
  <2>2. Resting.sent \in Seq(Nat \X Nat) /\ Resting.position \in Nat /\ Resting.tries \in Nat
    BY <1>6 DEF WriterRecord
  <2> QED BY <1>2, <1>3, <1>6, <2>1, <2>2 DEF WriterRecord
<1> HIDE DEF r
<1>8. Held(r, now)
  <2>1. r.position <= PartsOf[r.staged] /\ r.sent = Prefix(r.staged, r.position)
    BY <1>2, <1>7, NothingSentYet
  <2>2. r.modified # Undated => r.modified <= r.staged
    BY <1>2, <1>7
  <2> QED BY <1>1, <1>2, <1>7, <2>1, <2>2 DEF Held
<1>9. Backed(r, object)
  BY <1>4, <1>7 DEF Backed
<1> QED BY <1>2, <1>5, <1>8, <1>9, OneWriter DEF UploadInv

(* A worker that finds its object in storage answers at once.              *)
LEMMA CheckKeepsInv ==
  ASSUME UploadInv, NEW w \in Writers, CheckDocument(w) \/ CheckDrive(w) \/ CheckParquet(w)
  PROVE  UploadInv'
<1>1. UNCHANGED <<key, now, object>> /\ writer[w].step = "check"
  BY DEF CheckDocument, CheckDrive, CheckParquet
<1>2. Held(writer[w], now) /\ (object = NoObject \/ ObjectSound(object, now)) /\ now \in Nat
  BY UploadsAssumption DEF UploadInv
<1>3. UpToDate(w) => /\ object # NoObject
                     /\ writer[w].modified # Undated => object.content >= writer[w].modified \/ object.late
  BY <1>2 DEF UpToDate, ObjectSound
<1>4. writer[w].kind = "parquet" /\ object # NoObject /\ writer[w].modified # Undated =>
        object.content >= writer[w].modified \/ object.late
  BY <1>2 DEF Held, ObjectSound
<1>5. PICK step \in {"answered", "upload", "stage", "failed"} :
        /\ Goes(w, step)
        /\ step = "answered" => UpToDate(w) \/ (writer[w].kind = "parquet" /\ object # NoObject)
  BY DEF CheckDocument, CheckDrive, CheckParquet
<1>6. step \in WriterSteps
  BY DEF WriterSteps
<1> QED BY <1>1, <1>3, <1>4, <1>5, <1>6, GoesKeepsInv

LEMMA StageKeepsInv ==
  ASSUME UploadInv, NEW w \in Writers, Stage(w) \/ DownloadChild(w) PROVE UploadInv'
<1>1. UNCHANGED <<key, now, object>> /\ writer[w].step = "stage" /\ now \in Nat /\ now \in 0..MaxChanges
  BY UploadsAssumption DEF Stage, DownloadChild, UploadInv
<1>2. CASE Goes(w, "upload") \/ Goes(w, "failed")
  BY <1>1, <1>2, GoesKeepsInv DEF WriterSteps
<1>3. CASE writer' = [writer EXCEPT ![w].step = "upload", ![w].staged = now]
  <2> DEFINE r == [writer[w] EXCEPT !.step = "upload", !.staged = now]
  <2>1. Held(writer[w], now) /\ writer[w] \in WriterRecord
    BY DEF UploadInv, Held
  <2>2. /\ r \in WriterRecord /\ r.step = "upload" /\ r.kind = writer[w].kind /\ r.modified = writer[w].modified
        /\ r.staged = now /\ r.position = writer[w].position /\ r.sent = writer[w].sent
    BY <1>1, <2>1 DEF WriterRecord, WriterSteps
  <2>3. writer' = [writer EXCEPT ![w] = r]
    BY <1>3
  <2> HIDE DEF r
  <2>4. r.position = 0 /\ r.sent = <<>>
    <3>1. writer[w].position = 0 /\ writer[w].sent = Prefix(writer[w].staged, 0)
          /\ writer[w].staged \in 0..MaxChanges
      BY <1>1, <2>1, UploadsAssumption DEF Held, WriterRecord
    <3> QED BY <2>2, <3>1, NothingSentYet
  <2>5. r.position <= PartsOf[r.staged] /\ r.sent = Prefix(r.staged, r.position)
    BY <1>1, <2>2, <2>4, NothingSentYet
  <2>6. r.modified # Undated => r.modified <= r.staged
    BY <1>1, <2>1, <2>2 DEF Held, WriterRecord
  <2>7. Held(r, now)
    BY <1>1, <2>1, <2>2, <2>5, <2>6 DEF Held
  <2>8. Backed(r, object)
    BY <2>2 DEF Backed
  <2> QED BY <1>1, <2>3, <2>7, <2>8, OneWriter DEF UploadInv
<1> QED BY <1>2, <1>3 DEF Stage, DownloadChild

-----------------------------------------------------------------------------
(* The upload.                                                             *)
LEMMA NextPartKeepsInv ==
  ASSUME UploadInv, NEW w \in Writers, NextPart(w), writer[w].step = "upload", UNCHANGED <<key, now>>
  PROVE  UploadInv'
<1> DEFINE c == writer[w].staged
           n == writer[w].position
           r == [writer[w] EXCEPT !.position = @ + 1, !.sent = Append(@, File(c)[n + 1])]
<1>1. Held(writer[w], now) /\ writer[w] \in WriterRecord /\ c \in 0..MaxChanges /\ n \in Nat /\ c \in Nat
  BY UploadsAssumption DEF UploadInv, Held, WriterRecord
<1>2. n < PartsOf[c] /\ PartsOf[c] \in Nat /\ UNCHANGED object /\ writer[w].sent = Prefix(c, n)
  BY <1>1, UploadsAssumption DEF NextPart, Held
<1>3. writer' = [writer EXCEPT ![w] = r]
  BY DEF NextPart
<1>4. File(c)[n + 1] = <<c, n + 1>>
  BY <1>1, <1>2 DEF File
<1>5. Append(writer[w].sent, File(c)[n + 1]) = Prefix(c, n + 1)
  BY <1>1, <1>2, <1>4, PrefixesAreSequences
<1>6. Prefix(c, n + 1) \in Seq(Nat \X Nat) /\ n + 1 \in Nat
  <2>1. n + 1 \in Nat /\ c \in Nat
    BY <1>1
  <2> HIDE DEF c, n
  <2> QED BY <2>1, PrefixesAreSequences
<1>7. /\ r \in WriterRecord /\ r.step = "upload" /\ r.kind = writer[w].kind /\ r.modified = writer[w].modified
      /\ r.staged = c /\ r.position = n + 1 /\ r.sent = Prefix(c, n + 1)
  BY <1>1, <1>5, <1>6 DEF WriterRecord
<1> HIDE DEF r
<1>8. Held(r, now)
  <2>1. r.position <= PartsOf[r.staged]
    BY <1>1, <1>2, <1>7
  <2> QED BY <1>1, <1>7, <2>1 DEF Held
<1>9. Backed(r, object)
  BY <1>7 DEF Backed
<1> QED BY <1>2, <1>3, <1>8, <1>9, OneWriter DEF UploadInv

\* A try that failed: what was stored, if anything, is whole, and the next one
\* begins at the start.
LEMMA TryAgainKeepsInv ==
  ASSUME UploadInv, NEW w \in Writers, TryAgain(w), UNCHANGED <<key, now>>,
         object' = NoObject \/ ObjectSound(object', now),
         \A x \in Writers \ {w} : Backed(writer[x], object')
  PROVE  UploadInv'
<1> DEFINE step == IF writer[w].tries + 1 = MaxTries THEN "failed" ELSE "upload"
           r == [writer[w] EXCEPT !.tries = @ + 1, !.sent = <<>>, !.position = 0, !.step = step]
<1>1. Held(writer[w], now) /\ writer[w] \in WriterRecord /\ writer[w].staged \in 0..MaxChanges
  BY UploadsAssumption DEF UploadInv, Held
<1>2. step \in WriterSteps /\ step \in {"failed", "upload"} /\ <<>> \in Seq(Nat \X Nat)
  BY EmptySeq DEF WriterSteps
<1>3. writer' = [writer EXCEPT ![w] = r]
  BY DEF TryAgain
<1> HIDE DEF step
<1>4. /\ r \in WriterRecord /\ r.step = step /\ r.kind = writer[w].kind /\ r.modified = writer[w].modified
      /\ r.staged = writer[w].staged /\ r.position = 0 /\ r.sent = <<>>
  <2>1. writer[w].tries + 1 \in Nat
    BY <1>1 DEF WriterRecord
  <2> QED BY <1>1, <1>2, <2>1 DEF WriterRecord
<1> HIDE DEF r
<1>5. r.position <= PartsOf[r.staged] /\ r.sent = Prefix(r.staged, r.position)
  BY <1>1, <1>4, NothingSentYet
<1>6. Held(r, now)
  BY <1>1, <1>2, <1>4, <1>5 DEF Held
<1>7. Backed(r, object')
  BY <1>2, <1>4 DEF Backed
<1> QED BY <1>3, <1>6, <1>7, OneWriter

\* One worker's put leaves everyone backed, and the worker itself if it takes
\* it for its answer.
LEMMA PutKeepsOthers ==
  ASSUME UploadInv, NEW w \in Writers, NEW data, Put(w, data), data = File(writer[w].staged)
  PROVE  /\ ObjectSound(object', now) /\ object' # NoObject
         /\ \A x \in Writers :
              /\ Backed(writer[x], object')
              /\ writer[x].modified # Undated => object'.content >= writer[x].modified \/ object'.late
<1>1. \A x \in Writers : Held(writer[x], now)
  BY DEF UploadInv
<1> QED BY <1>1, PutIsSound DEF Backed

LEMMA SentIsFile ==
  ASSUME UploadInv, NEW w \in Writers, writer[w].step = "upload",
         writer[w].position = PartsOf[writer[w].staged]
  PROVE  writer[w].sent = File(writer[w].staged)
<1>1. Held(writer[w], now) /\ writer[w].staged \in 0..MaxChanges
  BY UploadsAssumption DEF UploadInv, Held
<1>2. writer[w].sent = Prefix(writer[w].staged, writer[w].position)
  BY <1>1 DEF Held
<1> QED BY <1>1, <1>2, FilesArePrefixes

LEMMA UploadKeepsInv ==
  ASSUME UploadInv, NEW w \in Writers,
         PutWhole(w) \/ PutInParts(w) \/ UploadParquet(w) \/ UploadMerged(w)
  PROVE  UploadInv'
<1>1. UNCHANGED <<key, now>> /\ writer[w].step = "upload"
  BY DEF PutWhole, PutInParts, UploadParquet, UploadMerged, UploadOnce
<1>2. PICK stored \in BOOLEAN :
        IF stored THEN \E data : Put(w, data) /\ data = File(writer[w].staged)
                  ELSE UNCHANGED object
  <2>1. SentAll(w) => \E data : Put(w, data) /\ data = File(writer[w].staged)
    BY <1>1, SentIsFile DEF SentAll
  <2>2. NextPart(w) => UNCHANGED object
    BY DEF NextPart
  <2> QED BY <2>1, <2>2 DEF PutWhole, PutInParts, UploadParquet, UploadMerged, UploadOnce
<1>3. /\ object' = NoObject \/ ObjectSound(object', now)
      /\ \A x \in Writers \ {w} : Backed(writer[x], object')
  <2>1. CASE stored
    BY <1>2, <2>1, PutKeepsOthers
  <2>2. CASE ~stored
    BY <1>2, <2>2 DEF UploadInv
  <2> QED BY <2>1, <2>2
<1>4. CASE NextPart(w)
  BY <1>1, <1>4, NextPartKeepsInv
<1>5. CASE TryAgain(w)
  BY <1>1, <1>3, <1>5, TryAgainKeepsInv
<1>6. CASE Goes(w, "failed")
  BY <1>1, <1>3, <1>6, GoesKeepsHeld DEF WriterSteps
<1>7. CASE Goes(w, "answered") /\ \E data : Put(w, data) /\ data = File(writer[w].staged)
  <2>1. /\ object' # NoObject
        /\ writer[w].modified # Undated => object'.content >= writer[w].modified \/ object'.late
    BY <1>7, PutKeepsOthers
  <2> QED BY <1>1, <1>3, <1>7, <2>1, GoesKeepsHeld DEF WriterSteps
<1>8. SentAll(w) => \E data : Put(w, data) /\ data = File(writer[w].staged)
  BY <1>1, SentIsFile DEF SentAll
<1> QED BY <1>4, <1>5, <1>6, <1>7, <1>8
        DEF PutWhole, PutInParts, UploadParquet, UploadMerged, UploadOnce

LEMMA ChangeKeepsInv == UploadInv /\ SourceChanges => UploadInv'
<1> SUFFICES ASSUME UploadInv, SourceChanges PROVE UploadInv'
  OBVIOUS
<1>1. /\ now \in 0..MaxChanges /\ now' \in 0..MaxChanges /\ now' = now + 1 /\ MaxChanges \in Nat
      /\ UNCHANGED <<key, object, writer>>
  BY UploadsAssumption DEF SourceChanges, UploadInv
<1>2. object = NoObject \/ ObjectSound(object, now')
  BY <1>1 DEF UploadInv, ObjectSound
<1>3. \A w \in Writers : Held(writer[w], now')
  BY <1>1 DEF UploadInv, Held
<1> QED BY <1>1, <1>2, <1>3 DEF UploadInv

-----------------------------------------------------------------------------
LEMMA UploadInvInit == UploadsInit => UploadInv
<1> SUFFICES ASSUME UploadsInit PROVE UploadInv
  OBVIOUS
<1>1. /\ now = 0 /\ now \in 0..MaxChanges /\ object = NoObject /\ writer = [w \in Writers |-> Resting]
      /\ key \in DOMAIN KindsOf
  BY UploadsAssumption DEF UploadsInit
<1>2. Held(Resting, 0) /\ Backed(Resting, NoObject)
  BY RestingHolds DEF Backed, Resting
<1> QED BY <1>1, <1>2 DEF UploadInv

LEMMA UploadInvStep == UploadInv /\ [UploadsNext]_uploadVars => UploadInv'
<1> SUFFICES ASSUME UploadInv, [UploadsNext]_uploadVars PROVE UploadInv'
  OBVIOUS
<1>1. CASE SourceChanges
  BY <1>1, ChangeKeepsInv
<1>2. ASSUME NEW w \in Writers, GiveUp(w) PROVE UploadInv'
  BY <1>2, GoesKeepsInv DEF GiveUp, WriterSteps
<1>3. CASE UNCHANGED uploadVars
  BY <1>3 DEF uploadVars, UploadInv
<1> QED BY <1>1, <1>2, <1>3, StartKeepsInv, CheckKeepsInv, StageKeepsInv, UploadKeepsInv DEF UploadsNext

(* What S3DocumentIngestor, ParquetUploader and the coordinator store is a *)
(* whole file under any failures, retries and rivals, and whoever answers  *)
(* has it there, as new as the modification time it was told of.           *)
THEOREM UploadsAlwaysSafe == UploadsSpec => []UploadsAreSafe
<1>1. UploadInv => UploadsAreSafe
  <2> SUFFICES ASSUME UploadInv PROVE UploadsAreSafe
    OBVIOUS
  <2>1. ObjectIsWhole
    BY DEF UploadInv, ObjectIsWhole, ObjectSound
  <2>2. AnswerIsBacked
    BY DEF UploadInv, AnswerIsBacked, Backed
  <2> QED BY <2>1, <2>2 DEF UploadsAreSafe
<1> QED BY <1>1, UploadInvInit, UploadInvStep, PTL DEF UploadsSpec

=============================================================================
